---------------------------- MODULE Spec2Model ----------------------------
(***************************************************************************)
(* Signal consolidation pipeline of saas-radar: text normalisation,        *)
(* trigram Jaccard similarity, union-find clustering (idea_cluster.py),    *)
(* 5-factor scoring and sorting (score.py) and near-duplicate removal      *)
(* (dedupe.py).                                                            *)
(*                                                                         *)
(* Conventions.  A Python str is a sequence of one-character strings.      *)
(* Optional[T] is <<>> for None and <<v>> for a value v.  A float that     *)
(* the code compares or truncates is kept exact: a similarity is a         *)
(* fraction [num, den], a weighted score is an integer number of           *)
(* hundredths.  List indices are 0-based as in the source; the list        *)
(* itself is a TLA+ sequence, so element i of a list L is L[i + 1].        *)
(***************************************************************************)
EXTENDS Integers, Sequences, FiniteSets, TLC

VARIABLES
    pc,          \* position of the running operation
    items,       \* the list of SaaSIdeaItem the operation works on (mutated in place)
    threshold,   \* similarity threshold argument, a fraction [num, den]
    ngrams,      \* cluster_ideas: precomputed n-gram sets, index -> set
    parent,      \* cluster_ideas: union-find parent array
    rank,        \* cluster_ideas: union-find rank array
    ci,          \* cluster_ideas: outer loop index i
    cj,          \* cluster_ideas: inner loop index j
    clusters,    \* cluster_ideas: the dict root -> members, in insertion order
    dup_pairs,   \* dedupe_saas: the pairs find_duplicates returned
    to_remove,   \* dedupe_saas: the removal set
    out,         \* list returned by the operation
    out2,        \* list returned by applying the operation to its own output
    main         \* main(): its position, its locals and the two search futures

vars == <<pc, items, threshold, ngrams, parent, rank, ci, cj, clusters,
          dup_pairs, to_remove, out, out2, main>>

---------------------------------------------------------------------------
(* Bounds of the model *)

MaxClusterItems == 4

MaxDedupeItems == 3

---------------------------------------------------------------------------
(* Optional values and small helpers *)

None == <<>>

Some(v) == <<v>>

IsNone(o) == o = <<>>

Val(o) == o[1]

Min2(a, b) == IF a <= b THEN a ELSE b

Max2(a, b) == IF a >= b THEN a ELSE b

\* main() is not running: the operations are called on their own
MainIdle ==
    [pc |-> "idle", run_reddit |-> FALSE, run_x |-> FALSE,
     reddit_future |-> "none", x_future |-> "none",
     reddit_result |-> None, x_result |-> None,
     reddit_items |-> <<>>, x_items |-> <<>>,
     reddit_error |-> None, x_error |-> None,
     all_items |-> <<>>, deduped |-> <<>>, report |-> None]

---------------------------------------------------------------------------
(* Characters: the classes Python's lower(), \w and \s distinguish *)

LowerLetters == {"a", "b", "c", "d", "e", "f"}

UpperLetters == {"A", "B", "C", "D"}

DigitChars == {"0", "1", "2", "3", "4", "5", "6", "7", "8", "9"}

SpaceChars == {" ", "\t"}

LowerChar(c) ==
    CASE c = "A" -> "a"
      [] c = "B" -> "b"
      [] c = "C" -> "c"
      [] c = "D" -> "d"
      [] OTHER -> c

\* \w of Python's re on str: letters, digits and the underscore
IsWordChar(c) == c \in LowerLetters \cup UpperLetters \cup DigitChars \cup {"_"}

IsSpaceChar(c) == c \in SpaceChars

---------------------------------------------------------------------------
(* normalize_text *)

LowerText(t) == [k \in 1..Len(t) |-> LowerChar(t[k])]

\* re.sub(r'[^\w\s]', ' ', text)
SubPunct(t) ==
    [k \in 1..Len(t) |-> IF IsWordChar(t[k]) \/ IsSpaceChar(t[k]) THEN t[k] ELSE " "]

RECURSIVE DropLeadingSpace(_)
DropLeadingSpace(t) ==
    IF t # <<>> /\ IsSpaceChar(Head(t)) THEN DropLeadingSpace(Tail(t)) ELSE t

\* re.sub(r'\s+', ' ', text)
RECURSIVE CollapseSpace(_)
CollapseSpace(t) ==
    IF t = <<>> THEN <<>>
    ELSE IF IsSpaceChar(Head(t))
         THEN <<" ">> \o CollapseSpace(DropLeadingSpace(Tail(t)))
         ELSE <<Head(t)>> \o CollapseSpace(Tail(t))

RECURSIVE DropTrailingSpace(_)
DropTrailingSpace(t) ==
    IF t # <<>> /\ IsSpaceChar(t[Len(t)])
    THEN DropTrailingSpace(SubSeq(t, 1, Len(t) - 1))
    ELSE t

\* str.strip()
Strip(t) == DropTrailingSpace(DropLeadingSpace(t))

normalize_text(t) == Strip(CollapseSpace(SubPunct(LowerText(t))))

---------------------------------------------------------------------------
(* get_ngrams and jaccard_similarity *)

NgramSize == 3

\* mutant: the n-grams of the text as given, without normalize_text
get_ngrams_raw(text) ==
    IF Len(text) < NgramSize
    THEN {text}
    ELSE {SubSeq(text, k, k + NgramSize - 1) : k \in 1..(Len(text) - NgramSize + 1)}

get_ngrams(text) ==
    LET t == normalize_text(text)
    IN  IF Len(t) < NgramSize
        THEN {t}
        ELSE {SubSeq(t, k, k + NgramSize - 1) : k \in 1..(Len(t) - NgramSize + 1)}

\* a float in [0, 1] as the exact fraction num / den
Frac(n, d) == [num |-> n, den |-> d]

\* mutant: the quotient taken without the guards for empty sets
jaccard_unguarded(set1, set2) ==
    Frac(Cardinality(set1 \cap set2), Cardinality(set1 \cup set2))

jaccard_similarity(set1, set2) ==
    IF set1 = {} \/ set2 = {}
    THEN Frac(0, 1)
    ELSE LET intersection == Cardinality(set1 \cap set2)
             union == Cardinality(set1 \cup set2)
         IN  IF union > 0 THEN Frac(intersection, union) ELSE Frac(0, 1)

\* sim >= threshold
FracGeq(sim, th) == sim.num * th.den >= th.num * sim.den

---------------------------------------------------------------------------
(* Items *)

Unassigned == -1

DefaultMarketSignal == 25

NoSubs == [idea_quality |-> 0, engagement |-> 0, market_signal |-> 0,
           growth |-> 0, recency |-> 0]

\* schema.SaaSIdeaItem with the dataclass defaults of the fields not given
MkItem(id, title, source, summary) ==
    [id |-> id, title |-> title, source |-> source,
     date |-> None, date_confidence |-> "low", signal_type |-> "problem",
     idea_summary |-> summary, target_audience |-> <<>>,
     subreddit_growth |-> 100, market_signal |-> DefaultMarketSignal,
     cluster_id |-> Unassigned, engagement |-> None, subs |-> NoSubs,
     score |-> 0]

Indices(L) == 0..(Len(L) - 1)

\* all lists of length 0..n over the element set S
ListsUpTo(S, n) == UNION {[1..k -> S] : k \in 0..n}

\* the list with the ids set to the positions, so that items are distinct by identity
WithIds(L) == [k \in 1..Len(L) |-> [L[k] EXCEPT !.id = k - 1]]

---------------------------------------------------------------------------
(* Union-find of idea_cluster.py *)

\* _find_root: the root, and the parent array after path compression
RECURSIVE FindRootRun(_, _)
FindRootRun(par, i) ==
    IF par[i] = i
    THEN [parent |-> par, root |-> i]
    ELSE LET p2 == [par EXCEPT ![i] = par[par[i]]]
         IN  FindRootRun(p2, p2[i])

\* mutant: links b under a without looking up the roots
UnionNoFind(par, rnk, a, b) == [parent |-> [par EXCEPT ![b] = a], rank |-> rnk]

\* mutant: the root of b always goes under the root of a, whatever the ranks
UnionRunUnranked(par, rnk, a, b) ==
    LET fa == FindRootRun(par, a)
        fb == FindRootRun(fa.parent, b)
        p  == fb.parent
    IN  IF fa.root = fb.root
        THEN [parent |-> p, rank |-> rnk]
        ELSE [parent |-> [p EXCEPT ![fb.root] = fa.root],
              rank |-> IF rnk[fa.root] = rnk[fb.root]
                       THEN [rnk EXCEPT ![fa.root] = rnk[fa.root] + 1]
                       ELSE rnk]

\* _union: the parent and rank arrays after union by rank
UnionRun(par, rnk, a, b) ==
    LET fa == FindRootRun(par, a)
        fb == FindRootRun(fa.parent, b)
        p  == fb.parent
    IN  IF fa.root = fb.root
        THEN [parent |-> p, rank |-> rnk]
        ELSE LET swap == rnk[fa.root] < rnk[fb.root]
                 ra == IF swap THEN fb.root ELSE fa.root
                 rb == IF swap THEN fa.root ELSE fb.root
             IN  [parent |-> [p EXCEPT ![rb] = ra],
                  rank |-> IF rnk[ra] = rnk[rb]
                           THEN [rnk EXCEPT ![ra] = rnk[ra] + 1]
                           ELSE rnk]

---------------------------------------------------------------------------
(* cluster_ideas, one loop iteration per step *)

\* mutant: counts the other members of the cluster only
MarketSignalOfOthers(cluster_size) == Min2((cluster_size - 1) * 25, 100)

\* line 109: min(cluster_size * 25, 100)
MarketSignalOf(cluster_size) == Min2(cluster_size * 25, 100)

\* len(items) <= 1: every item gets market_signal 25 and cluster_id 0
ClusterTrivial ==
    /\ pc = "cluster"
    /\ Len(items) <= 1
    /\ items' = [k \in 1..Len(items) |->
                    [items[k] EXCEPT !.market_signal = 25, !.cluster_id = 0]]
    /\ out' = items'
    /\ pc' = "clustered"
    /\ UNCHANGED <<main, threshold, ngrams, parent, rank, ci, cj, clusters, dup_pairs, to_remove, out2>>

\* lines 82-89: n-grams of idea_summary, parent = range(n), rank = [0] * n
ClusterSetup ==
    /\ pc = "cluster"
    /\ Len(items) >= 2
    /\ ngrams' = [i \in Indices(items) |-> get_ngrams(items[i + 1].idea_summary)]
    /\ parent' = [i \in Indices(items) |-> i]
    /\ rank' = [i \in Indices(items) |-> 0]
    /\ ci' = 0
    /\ cj' = 1
    /\ pc' = "pairs"
    /\ UNCHANGED <<main, items, threshold, clusters, dup_pairs, to_remove, out, out2>>

\* lines 92-96: one iteration of the inner loop, on the pair (ci, cj)
ClusterCompare ==
    /\ pc = "pairs"
    /\ LET n == Len(items)
           sim == jaccard_similarity(ngrams[ci], ngrams[cj])
           u == IF FracGeq(sim, threshold)
                THEN UnionRun(parent, rank, ci, cj)
                ELSE [parent |-> parent, rank |-> rank]
       IN  /\ parent' = u.parent
           /\ rank' = u.rank
           /\ IF cj + 1 < n
              THEN /\ ci' = ci
                   /\ cj' = cj + 1
                   /\ pc' = "pairs"
                   /\ UNCHANGED clusters
              ELSE IF ci + 2 < n
                   THEN /\ ci' = ci + 1
                        /\ cj' = ci + 2
                        /\ pc' = "pairs"
                        /\ UNCHANGED clusters
                   ELSE /\ ci' = 0
                        /\ cj' = cj
                        /\ clusters' = <<>>
                        /\ pc' = "sweep"
    /\ UNCHANGED <<main, items, threshold, ngrams, dup_pairs, to_remove, out, out2>>

\* position of root r in the dict, 0 when it is not a key
ClusterPos(cl, r) ==
    IF \E k \in 1..Len(cl) : cl[k].root = r
    THEN CHOOSE k \in 1..Len(cl) : cl[k].root = r
    ELSE 0

\* lines 100-104: one iteration of the sweep, on index ci
ClusterSweep ==
    /\ pc = "sweep"
    /\ LET f == FindRootRun(parent, ci)
           k == ClusterPos(clusters, f.root)
       IN  /\ parent' = f.parent
           /\ clusters' =
                IF k = 0
                THEN Append(clusters, [root |-> f.root, members |-> <<ci>>])
                ELSE [clusters EXCEPT ![k].members = Append(@, ci)]
    /\ IF ci + 1 < Len(items)
       THEN ci' = ci + 1 /\ pc' = "sweep"
       ELSE ci' = ci /\ pc' = "assign"
    /\ UNCHANGED <<main, items, threshold, ngrams, rank, cj, dup_pairs, to_remove, out, out2>>

\* mutant: the root index is used as the cluster_id
ClusterAssignRootIds ==
    /\ pc = "assign"
    /\ items' = [k \in 1..Len(items) |->
                    LET c == CHOOSE c \in 1..Len(clusters) :
                                 \E m \in 1..Len(clusters[c].members) :
                                     clusters[c].members[m] = k - 1
                    IN  [items[k] EXCEPT
                            !.cluster_id = clusters[c].root,
                            !.market_signal = MarketSignalOf(Len(clusters[c].members))]]
    /\ out' = items'
    /\ pc' = "clustered"
    /\ UNCHANGED <<main, threshold, ngrams, parent, rank, ci, cj, clusters, dup_pairs, to_remove, out2>>

\* lines 107-114: cluster_id is the position of the root in the dict
ClusterAssign ==
    /\ pc = "assign"
    /\ items' = [k \in 1..Len(items) |->
                    LET c == CHOOSE c \in 1..Len(clusters) :
                                 \E m \in 1..Len(clusters[c].members) :
                                     clusters[c].members[m] = k - 1
                    IN  [items[k] EXCEPT
                            !.cluster_id = c - 1,
                            !.market_signal = MarketSignalOf(Len(clusters[c].members))]]
    /\ out' = items'
    /\ pc' = "clustered"
    /\ UNCHANGED <<main, threshold, ngrams, parent, rank, ci, cj, clusters, dup_pairs, to_remove, out2>>

ClusterNext ==
    \/ ClusterTrivial
    \/ ClusterSetup
    \/ ClusterCompare
    \/ ClusterSweep
    \/ ClusterAssign

---------------------------------------------------------------------------
(* Inputs of the clustering runs *)

ThresholdPool == {Frac(3, 10), Frac(7, 10)}

SummaryPool ==
    { <<"!", "?">>,
      <<"a", "b">>,
      <<"a", "b", "c", "d">>,
      <<"B", "c", "d", "e", "!">>,
      <<"c", "d", "e", "f">> }

ClusterItemPool == {MkItem(0, <<"t">>, "reddit", s) : s \in SummaryPool}

ClusterInit ==
    /\ pc = "cluster"
    /\ items \in {WithIds(L) : L \in ListsUpTo(ClusterItemPool, MaxClusterItems)}
    /\ threshold \in ThresholdPool
    /\ ngrams = <<>>
    /\ parent = <<>>
    /\ rank = <<>>
    /\ ci = 0
    /\ cj = 0
    /\ clusters = <<>>
    /\ dup_pairs = {}
    /\ to_remove = {}
    /\ out = <<>>
    /\ out2 = <<>>
    /\ main = MainIdle

SpecCluster == ClusterInit /\ [][ClusterNext]_vars

---------------------------------------------------------------------------
(* Claims about cluster_ideas *)

\* the precomputed n-gram sets a and b of ng reach the threshold
NgramsSimilar(ng, th, a, b) == FracGeq(jaccard_similarity(ng[a], ng[b]), th)

\* the indices reachable from the set S along similar pairs
RECURSIVE SimilarComponent(_, _, _)
SimilarComponent(ng, th, S) ==
    LET S2 == S \cup {b \in DOMAIN ng : \E a \in S : a # b /\ NgramsSimilar(ng, th, a, b)}
    IN  IF S2 = S THEN S ELSE SimilarComponent(ng, th, S2)

\* C1: after cluster_ideas on n >= 2 items, two items share a cluster_id exactly
\* when a path of pairwise similar items (similarity >= threshold) connects them
C1_TransitiveClosure ==
    (pc = "clustered" /\ Len(items) >= 2) =>
        \A a, b \in Indices(items) :
            (items[a + 1].cluster_id = items[b + 1].cluster_id)
                <=> (b \in SimilarComponent(ngrams, threshold, {a}))

\* C1 witness: 0~2 and 1~2 but not 0~1, and all three share one cluster
C1_Witness ==
    /\ pc = "clustered"
    /\ Len(items) = 3
    /\ NgramsSimilar(ngrams, threshold, 0, 2)
    /\ NgramsSimilar(ngrams, threshold, 1, 2)
    /\ ~NgramsSimilar(ngrams, threshold, 0, 1)
    /\ items[1].cluster_id = items[2].cluster_id
    /\ items[2].cluster_id = items[3].cluster_id

---------------------------------------------------------------------------
(* dedupe.py *)

\* mutant: only neighbours are compared, as if duplicates were always adjacent
find_duplicates_adjacent(L, th) ==
    LET ng == [k \in 1..Len(L) |-> get_ngrams(L[k].title)] \o <<>>
    IN  {p \in Indices(L) \X Indices(L) :
            /\ p[2] = p[1] + 1
            /\ FracGeq(jaccard_similarity(ng[p[1] + 1], ng[p[2] + 1]), th)}

\* find_duplicates: the pairs <<i, j>>, i < j, whose title similarity reaches the threshold
find_duplicates(L, th) ==
    LET ng == [k \in 1..Len(L) |-> get_ngrams(L[k].title)] \o <<>>
    IN  {p \in Indices(L) \X Indices(L) :
            /\ p[1] < p[2]
            /\ FracGeq(jaccard_similarity(ng[p[1] + 1], ng[p[2] + 1]), th)}

\* mutant: the comparison is turned round, so the higher-scored member is marked
ToRemoveKeepLower(L, pairs) ==
    {IF L[p[1] + 1].score <= L[p[2] + 1].score THEN p[2] ELSE p[1] : p \in pairs}

\* mutant: a tie removes the earlier member instead of the later one
ToRemoveStrict(L, pairs) ==
    {IF L[p[1] + 1].score > L[p[2] + 1].score THEN p[2] ELSE p[1] : p \in pairs}

\* mutant: a pair counts only while its winner is itself kept, as if the
\* pairs were found again after every removal
ToRemoveByKeptWinners(L, pairs) ==
    LET loser(p) == IF L[p[1] + 1].score >= L[p[2] + 1].score THEN p[2] ELSE p[1]
        winner(p) == IF L[p[1] + 1].score >= L[p[2] + 1].score THEN p[1] ELSE p[2]
        lost == {loser(p) : p \in pairs}
    IN  {loser(p) : p \in {q \in pairs : winner(q) \notin lost}}

\* lines 79-84: the removal set accumulated over all pairs
ToRemove(L, pairs) ==
    {IF L[p[1] + 1].score >= L[p[2] + 1].score THEN p[2] ELSE p[1] : p \in pairs}

\* mutant: enumerate(items, 1), the indices are off by one
KeepNotRemovedFromOne(L, rem) ==
    LET idx == SelectSeq([k \in 1..Len(L) |-> k], LAMBDA i : i \notin rem)
    IN  [k \in 1..Len(idx) |-> L[idx[k]]]

\* mutant: the survivors are collected in reverse
KeepNotRemovedReversed(L, rem) ==
    LET idx == SelectSeq([k \in 1..Len(L) |-> Len(L) - k], LAMBDA i : i \notin rem)
    IN  [k \in 1..Len(idx) |-> L[idx[k] + 1]]

\* line 86: [item for idx, item in enumerate(items) if idx not in rem]
KeepNotRemoved(L, rem) ==
    LET idx == SelectSeq([k \in 1..Len(L) |-> k - 1], LAMBDA i : i \notin rem)
    IN  [k \in 1..Len(idx) |-> L[idx[k] + 1]]

dedupe_saas(L, th) ==
    IF Len(L) <= 1
    THEN L
    ELSE KeepNotRemoved(L, ToRemove(L, find_duplicates(L, th)))

\* deduped = dedupe_saas(items, threshold); dup_pairs and to_remove keep the
\* locals of this call (empty when the call returns early)
Dedupe ==
    /\ pc = "dedupe"
    /\ dup_pairs' = IF Len(items) <= 1 THEN {} ELSE find_duplicates(items, threshold)
    /\ to_remove' = ToRemove(items, dup_pairs')
    /\ out' = IF Len(items) <= 1 THEN items ELSE KeepNotRemoved(items, to_remove')
    /\ pc' = "deduped"
    /\ UNCHANGED <<main, items, threshold, ngrams, parent, rank, ci, cj, clusters, out2>>

\* dedupe_saas applied to its own output
DedupeAgain ==
    /\ pc = "deduped"
    /\ out2' = dedupe_saas(out, threshold)
    /\ pc' = "deduped2"
    /\ UNCHANGED <<main, items, threshold, ngrams, parent, rank, ci, cj, clusters,
                   dup_pairs, to_remove, out>>

DedupeNext ==
    \/ Dedupe
    \/ DedupeAgain

TitlePool ==
    { <<"!", "?">>,
      <<"a", "b", "c", "d">>,
      <<"A", "b", "C", "d", "!">>,
      <<"b", "c", "d", "e">>,
      <<"c", "d", "e", "f">> }

ScorePool == {60, 80, 90}

\* the thresholds of the clustering runs and the largest threshold, 1.0
DedupeThresholdPool == ThresholdPool \cup {Frac(1, 1)}

DedupeItemPool ==
    {[MkItem(0, t, "reddit", <<>>) EXCEPT !.score = s] : t \in TitlePool, s \in ScorePool}

DedupeInit ==
    /\ pc = "dedupe"
    /\ items \in {WithIds(L) : L \in ListsUpTo(DedupeItemPool, MaxDedupeItems)}
    /\ threshold \in DedupeThresholdPool
    /\ ngrams = <<>>
    /\ parent = <<>>
    /\ rank = <<>>
    /\ ci = 0
    /\ cj = 0
    /\ clusters = <<>>
    /\ dup_pairs = {}
    /\ to_remove = {}
    /\ out = <<>>
    /\ out2 = <<>>
    /\ main = MainIdle

SpecDedupe == DedupeInit /\ [][DedupeNext]_vars

---------------------------------------------------------------------------
(* Claims about dedupe_saas *)

\* the ids of the items of a list
IdsOf(L) == {L[k].id : k \in 1..Len(L)}

\* items k and m form one of the duplicate pairs E
IsDupPair(E, k, m) == <<k, m>> \in E \/ <<m, k>> \in E

\* item k loses the duplicate pair it forms with item m: m scores strictly
\* higher, or the scores tie and m comes first
LosesTo(L, E, k, m) ==
    /\ IsDupPair(E, k, m)
    /\ \/ L[m + 1].score > L[k + 1].score
       \/ L[m + 1].score = L[k + 1].score /\ m < k

\* the strictly higher-scored member of the pair p; the set is empty on a tie
HigherOf(L, p) ==
    IF L[p[1] + 1].score > L[p[2] + 1].score THEN {p[1]}
    ELSE IF L[p[2] + 1].score > L[p[1] + 1].score THEN {p[2]}
    ELSE {}

\* C2 as stated: the strictly higher-scored member of every reported duplicate
\* pair is in the output of dedupe_saas
C2_HigherOfEveryPairKept ==
    pc = "deduped" =>
        \A p \in dup_pairs :
            \A h \in HigherOf(items, p) : items[h + 1].id \in IdsOf(out)

\* C2 amended: the strictly higher-scored member of a reported duplicate pair is
\* in the output exactly when it loses no other duplicate pair
C2_HigherKeptUnlessItLoses ==
    pc = "deduped" =>
        \A p \in dup_pairs :
            \A h \in HigherOf(items, p) :
                (items[h + 1].id \in IdsOf(out))
                    <=> ~(\E m \in Indices(items) : LosesTo(items, dup_pairs, h, m))

\* C2 witness: a chain 0~1~2 with falling scores, where item 1 wins its pair
\* with item 2 and still is removed, because it loses its pair with item 0
C2_Witness ==
    /\ pc = "deduped"
    /\ Len(items) = 3
    /\ dup_pairs = {<<0, 1>>, <<1, 2>>}
    /\ items[1].score > items[2].score
    /\ items[2].score > items[3].score
    /\ IdsOf(out) = {0}

\* the indices reachable from the set S along the duplicate pairs E
RECURSIVE DupComponent(_, _, _)
DupComponent(n, E, S) ==
    LET S2 == S \cup {b \in 0..(n - 1) : \E a \in S : IsDupPair(E, a, b)}
    IN  IF S2 = S THEN S ELSE DupComponent(n, E, S2)

\* C3: every connected component of the duplicate graph keeps an item with the
\* component's maximum score, and a non-empty input gives a non-empty output
C3_ComponentMaxKept ==
    pc = "deduped" =>
        LET kept == IdsOf(out)
        IN  /\ \A a \in Indices(items) :
                  LET comp == DupComponent(Len(items), dup_pairs, {a})
                  IN  \E k \in comp :
                         /\ \A m \in comp : items[k + 1].score >= items[m + 1].score
                         /\ items[k + 1].id \in kept
            /\ (Len(items) > 0 => Len(out) > 0)

\* C3 witness: an unsorted component of three items whose maximum comes last,
\* and only that item is kept
C3_Witness ==
    /\ pc = "deduped"
    /\ Len(items) = 3
    /\ DupComponent(3, dup_pairs, {0}) = {0, 1, 2}
    /\ items[3].score > items[1].score
    /\ items[3].score > items[2].score
    /\ IdsOf(out) = {2}

\* C4: dedupe_saas applied to its own output returns the same list
C4_Idempotent == pc = "deduped2" => out2 = out

\* C4 witness: the first application removed an item of three and the second
\* application returned its input
C4_Witness ==
    /\ pc = "deduped2"
    /\ Len(items) = 3
    /\ Len(out) = 2
    /\ out2 = out

---------------------------------------------------------------------------
(* score.py: engagement *)

WEIGHT_IDEA_QUALITY == 30

WEIGHT_ENGAGEMENT == 25

WEIGHT_MARKET_SIGNAL == 20

WEIGHT_GROWTH == 15

WEIGHT_RECENCY == 10

UNKNOWN_ENGAGEMENT_PENALTY == 10

LOW_DATE_CONFIDENCE_PENALTY == 10

DEFAULT_ENGAGEMENT == 35

\* schema.Engagement: every field is Optional
Engagement(score, num_comments, upvote_ratio, likes, reposts, replies, quotes) ==
    [score |-> score, num_comments |-> num_comments, upvote_ratio |-> upvote_ratio,
     likes |-> likes, reposts |-> reposts, replies |-> replies, quotes |-> quotes]

\* math.log1p in ten-thousandths, at the counts the inputs use
Log1pMicro(x) ==
    CASE x = 0 -> 0
      [] x = 3 -> 13863
      [] x = 100 -> 46151

\* log1p_safe of an Optional[int], in ten-thousandths
log1p_safe(x) == IF IsNone(x) \/ Val(x) < 0 THEN 0 ELSE Log1pMicro(Val(x))

\* (engagement.upvote_ratio or 0.5), in hundredths
RatioOrHalf(r) == IF IsNone(r) \/ Val(r) = 0 THEN 50 ELSE Val(r)

\* compute_reddit_engagement_raw of an Optional[Engagement]: None, or the raw
\* value in units of 10^-6
compute_reddit_engagement_raw(engagement) ==
    IF IsNone(engagement) THEN None
    ELSE LET e == Val(engagement)
         IN  IF IsNone(e.score) /\ IsNone(e.num_comments) THEN None
             ELSE Some(55 * log1p_safe(e.score) + 40 * log1p_safe(e.num_comments)
                          + 5 * RatioOrHalf(e.upvote_ratio) * 1000)

\* mutant: the raw value is null as soon as one of the four fields is missing
compute_x_engagement_raw_strict(engagement) ==
    IF IsNone(engagement) THEN None
    ELSE LET e == Val(engagement)
         IN  IF IsNone(e.likes) \/ IsNone(e.reposts) \/ IsNone(e.replies) \/ IsNone(e.quotes)
             THEN None
             ELSE Some(55 * log1p_safe(e.likes) + 25 * log1p_safe(e.reposts)
                          + 15 * log1p_safe(e.replies) + 5 * log1p_safe(e.quotes))

\* compute_x_engagement_raw of an Optional[Engagement], in units of 10^-6
compute_x_engagement_raw(engagement) ==
    IF IsNone(engagement) THEN None
    ELSE LET e == Val(engagement)
         IN  IF IsNone(e.likes) /\ IsNone(e.reposts) THEN None
             ELSE Some(55 * log1p_safe(e.likes) + 25 * log1p_safe(e.reposts)
                          + 15 * log1p_safe(e.replies) + 5 * log1p_safe(e.quotes))

\* lines 148-152: the raw engagement of one item, by its source
EngRawOf(item) ==
    IF item.source = "reddit"
    THEN compute_reddit_engagement_raw(item.engagement)
    ELSE compute_x_engagement_raw(item.engagement)

RECURSIVE SeqMin(_)
SeqMin(s) == IF Len(s) = 1 THEN s[1] ELSE Min2(s[1], SeqMin(Tail(s)))

RECURSIVE SeqMax(_)
SeqMax(s) == IF Len(s) = 1 THEN s[1] ELSE Max2(s[1], SeqMax(Tail(s)))

\* mutant: the values are scaled by the maximum instead of the range
normalize_to_100_by_max(values, default) ==
    LET valid == SelectSeq(values, LAMBDA v : ~IsNone(v))
    IN  IF valid = <<>>
        THEN [k \in 1..Len(values) |->
                 IF IsNone(values[k]) THEN Some(Frac(default, 1)) ELSE Some(Frac(50, 1))]
        ELSE LET vals == [k \in 1..Len(valid) |-> Val(valid[k])]
                 max_val == SeqMax(vals)
             IN  [k \in 1..Len(values) |->
                     IF IsNone(values[k])
                     THEN None
                     ELSE Some(Frac(Val(values[k]) * 100, max_val))]

\* normalize_to_100(values, default): each entry None or the fraction num / den
normalize_to_100(values, default) ==
    LET valid == SelectSeq(values, LAMBDA v : ~IsNone(v))
    IN  IF valid = <<>>
        THEN [k \in 1..Len(values) |->
                 IF IsNone(values[k]) THEN Some(Frac(default, 1)) ELSE Some(Frac(50, 1))]
        ELSE LET vals == [k \in 1..Len(valid) |-> Val(valid[k])]
                 min_val == SeqMin(vals)
                 max_val == SeqMax(vals)
                 range_val == max_val - min_val
             IN  IF range_val = 0
                 THEN [k \in 1..Len(values) |->
                          IF IsNone(values[k]) THEN Some(Frac(50, 1)) ELSE Some(Frac(50, 1))]
                 ELSE [k \in 1..Len(values) |->
                          IF IsNone(values[k])
                          THEN None
                          ELSE Some(Frac((Val(values[k]) - min_val) * 100, range_val))]

\* int() of a non-negative fraction
IntOfFrac(f) == f.num \div f.den

---------------------------------------------------------------------------
(* score.py: the other factors and the composite *)

\* SIGNAL_TYPE_SCORES.get(signal_type, 65)
SignalTypeScore(signal_type) ==
    CASE signal_type = "wish" -> 90
      [] signal_type = "problem" -> 80
      [] signal_type = "feature_gap" -> 75
      [] signal_type = "building" -> 70
      [] signal_type = "workflow" -> 65
      [] OTHER -> 65

\* mutant: the bonus is given from 10 characters on
compute_idea_quality_from_ten(item) ==
    LET base == SignalTypeScore(item.signal_type)
    IN  IF item.target_audience # <<>> /\ Len(item.target_audience) >= 10
        THEN Min2(base + 10, 100)
        ELSE base

compute_idea_quality(item) ==
    LET base == SignalTypeScore(item.signal_type)
    IN  IF item.target_audience # <<>> /\ Len(item.target_audience) > 10
        THEN Min2(base + 10, 100)
        ELSE base

\* _compute_growth_score of an acceleration in hundredths
compute_growth_score(acceleration) ==
    IF acceleration >= 300 THEN 100
    ELSE IF acceleration >= 200 THEN 80
    ELSE IF acceleration >= 150 THEN 60
    ELSE IF acceleration >= 120 THEN 40
    ELSE IF acceleration >= 100 THEN 20
    ELSE 0

\* the value of a decimal digit
DigitValue(c) ==
    CASE c = "0" -> 0
      [] c = "1" -> 1
      [] c = "2" -> 2
      [] c = "3" -> 3
      [] c = "4" -> 4
      [] c = "5" -> 5
      [] c = "6" -> 6
      [] c = "7" -> 7
      [] c = "8" -> 8
      [] c = "9" -> 9

\* the value of a string of decimal digits
RECURSIVE IntOfDigits(_)
IntOfDigits(t) ==
    IF t = <<>> THEN 0
    ELSE 10 * IntOfDigits(SubSeq(t, 1, Len(t) - 1)) + DigitValue(t[Len(t)])

\* days since 1970-01-01 of a civil date
DaysFromCivil(y, m, d) ==
    LET yy == IF m <= 2 THEN y - 1 ELSE y
        era == yy \div 400
        yoe == yy - era * 400
        mp == IF m > 2 THEN m - 3 ELSE m + 9
        doy == (153 * mp + 2) \div 5 + d - 1
        doe == yoe * 365 + yoe \div 4 - yoe \div 100 + doy
    IN  era * 146097 + doe - 719468

\* the day number of a date string YYYY-MM-DD
DayOfDate(t) ==
    DaysFromCivil(IntOfDigits(SubSeq(t, 1, 4)), IntOfDigits(SubSeq(t, 6, 7)),
                  IntOfDigits(SubSeq(t, 9, 10)))

\* the day the run takes place
Today == <<"2", "0", "2", "4", "-", "0", "6", "-", "3", "0">>

\* dates.recency_score(date, max_days): linear decay over the window, 0 without a date
recency_score(date, max_days) ==
    IF IsNone(date) THEN 0
    ELSE LET age == DayOfDate(Today) - DayOfDate(Val(date))
         IN  IF age < 0 THEN 100
             ELSE IF age >= max_days THEN 0
             ELSE (100 * (max_days - age)) \div max_days

RecencyWindowDays == 180

\* mutant: round to the nearest integer instead of truncating
RoundInt(x100) == IF x100 >= 0 THEN (x100 + 50) \div 100 ELSE -((50 - x100) \div 100)

\* int() of a float given in hundredths: truncation toward zero
TruncInt(x100) == IF x100 >= 0 THEN x100 \div 100 ELSE -((-x100) \div 100)

\* mutant: the clamp applied to the float, the int() left out, so that the
\* result keeps its hundredths
ItemScoreNoInt(overall100) == Max2(0, Min2(100 * 100, overall100))

\* line 201: max(0, min(100, int(overall))), overall in hundredths
ItemScore(overall100) == Max2(0, Min2(100, TruncInt(overall100)))

\* lines 157-201: one iteration of the scoring loop, on item k of the list L
ScoredItem(L, eng_raw, eng_normalized, k) ==
    LET item == L[k]
        idea_quality == compute_idea_quality(item)
        eng_score == IF ~IsNone(eng_normalized[k])
                     THEN IntOfFrac(Val(eng_normalized[k]))
                     ELSE DEFAULT_ENGAGEMENT
        market_signal == item.market_signal
        growth == compute_growth_score(item.subreddit_growth)
        recency == recency_score(item.date, RecencyWindowDays)
        weighted == WEIGHT_IDEA_QUALITY * idea_quality
                    + WEIGHT_ENGAGEMENT * eng_score
                    + WEIGHT_MARKET_SIGNAL * market_signal
                    + WEIGHT_GROWTH * growth
                    + WEIGHT_RECENCY * recency
        pen1 == IF IsNone(eng_raw[k]) THEN UNKNOWN_ENGAGEMENT_PENALTY * 100 ELSE 0
        pen2 == IF item.date_confidence = "low" THEN LOW_DATE_CONFIDENCE_PENALTY * 100 ELSE 0
    IN  [item EXCEPT
            !.subs = [idea_quality |-> idea_quality, engagement |-> eng_score,
                      market_signal |-> market_signal, growth |-> growth,
                      recency |-> recency],
            !.score = ItemScore(weighted - pen1 - pen2)]

\* mutant: the scorer rescales the market signal before storing the subscore
score_saas_items_rescaling(L) ==
    IF L = <<>>
    THEN L
    ELSE LET eng_raw == [k \in 1..Len(L) |-> EngRawOf(L[k])] \o <<>>
             eng_normalized == normalize_to_100(eng_raw, 50) \o <<>>
         IN  [k \in 1..Len(L) |->
                 LET it == ScoredItem(L, eng_raw, eng_normalized, k)
                 IN  [it EXCEPT !.subs.market_signal = it.market_signal \div 2]]

score_saas_items(L) ==
    IF L = <<>>
    THEN L
    ELSE LET eng_raw == [k \in 1..Len(L) |-> EngRawOf(L[k])] \o <<>>
             eng_normalized == normalize_to_100(eng_raw, 50) \o <<>>
         IN  [k \in 1..Len(L) |-> ScoredItem(L, eng_raw, eng_normalized, k)]

\* scored = score_saas_items(items): the items are scored in place
Score ==
    /\ pc = "score"
    /\ items' = score_saas_items(items)
    /\ out' = items'
    /\ pc' = "scored"
    /\ UNCHANGED <<main, threshold, ngrams, parent, rank, ci, cj, clusters,
                   dup_pairs, to_remove, out2>>

ScoreNext ==
    \/ Score

MaxBatch == 3

\* (source, engagement) as the searches deliver them
EngagementPool ==
    {<<"x", None>>,
     <<"reddit", Some(Engagement(None, None, Some(90), None, None, None, None))>>,
     <<"reddit", Some(Engagement(Some(100), Some(3), Some(90), None, None, None, None))>>,
     <<"reddit", Some(Engagement(Some(-5), Some(0), Some(0), None, None, None, None))>>,
     <<"x", Some(Engagement(None, None, None, Some(3), None, None, None))>>}

LongAudience == <<"d", "e", "v", "e", "l", "o", "p", "e", "r", "s", "!">>

\* (signal_type, target_audience, market_signal, subreddit_growth, date, date_confidence)
ProfilePool ==
    {<<"wish", LongAudience, 75, 130,
       Some(<<"2", "0", "2", "4", "-", "0", "2", "-", "0", "7">>), "high">>,
     <<"rant", <<>>, 0, 50, None, "low">>,
     <<"wish", LongAudience, 100, 300, Some(Today), "high">>}

ScoreItemPool ==
    {[MkItem(0, <<"a">>, e[1], <<"a">>) EXCEPT
         !.engagement = e[2], !.signal_type = p[1], !.target_audience = p[2],
         !.market_signal = p[3], !.subreddit_growth = p[4], !.date = p[5],
         !.date_confidence = p[6]] : e \in EngagementPool, p \in ProfilePool}

ScoreInit ==
    /\ pc = "score"
    /\ items \in {WithIds(L) : L \in ListsUpTo(ScoreItemPool, MaxBatch)}
    /\ threshold = Frac(3, 10)
    /\ ngrams = <<>>
    /\ parent = <<>>
    /\ rank = <<>>
    /\ ci = 0
    /\ cj = 0
    /\ clusters = <<>>
    /\ dup_pairs = {}
    /\ to_remove = {}
    /\ out = <<>>
    /\ out2 = <<>>
    /\ main = MainIdle

SpecScore == ScoreInit /\ [][ScoreNext]_vars

---------------------------------------------------------------------------
(* Scoring: the claims *)

Scored == pc = "scored"

\* the raw engagement of an item is null
RawIsNull(item) == IsNone(EngRawOf(item))

\* the integer part of a number given in hundredths
TruncPoints(x100) ==
    CHOOSE n \in -30..130 :
        IF x100 >= 0
        THEN n * 100 <= x100 /\ x100 < (n + 1) * 100
        ELSE (n - 1) * 100 < x100 /\ x100 <= n * 100

\* the composite the subscores stored in item.subs give, with a null
\* engagement penalty of pen_eng points and the low date confidence penalty
CompositeOfSubs(item, pen_eng) ==
    LET s == item.subs
        x100 == 30 * s.idea_quality + 25 * s.engagement + 20 * s.market_signal
                + 15 * s.growth + 10 * s.recency
                - 100 * pen_eng
                - (IF item.date_confidence = "low" THEN 1000 ELSE 0)
        t == TruncPoints(x100)
    IN  IF t < 0 THEN 0 ELSE IF t > 100 THEN 100 ELSE t

\* C5: on a non-empty batch in which every item's raw engagement is null,
\* every item's engagement subscore is 35 and every composite carries the
\* 10-point null-engagement penalty.
C5_AllNullBatchGets35 ==
    (pc = "scored" /\ items # <<>> /\ \A k \in DOMAIN items : RawIsNull(items[k]))
        => \A k \in DOMAIN items :
               /\ items[k].subs.engagement = 35
               /\ items[k].score = CompositeOfSubs(items[k], 10)

\* C6: in a batch holding at least one item with non-null raw engagement,
\* every item with null raw engagement gets engagement subscore 35 together
\* with the 10-point penalty, also when all non-null raw values are equal.
C6_NullItemGets35 ==
    (pc = "scored" /\ \E m \in DOMAIN items : ~RawIsNull(items[m]))
        => \A k \in DOMAIN items :
               RawIsNull(items[k])
                   => /\ items[k].subs.engagement = 35
                      /\ items[k].score = CompositeOfSubs(items[k], 10)

\* C9: after score_saas_items every item's composite score is an integer in
\* [0, 100], whatever the batch: null engagement structs, null or negative
\* counts, null dates, empty strings, unknown signal kinds, low date confidence.
C9_ScoreInRange ==
    Scored => \A k \in DOMAIN items : items[k].score \in 0..100

C9_Witness ==
    /\ pc = "scored"
    /\ \E k \in DOMAIN items :
           /\ IsNone(items[k].engagement)
           /\ IsNone(items[k].date)
           /\ items[k].signal_type = "rant"
           /\ items[k].target_audience = <<>>
           /\ items[k].date_confidence = "low"
           /\ items[k].score \in 0..100
    /\ \E m \in DOMAIN items :
           /\ ~IsNone(items[m].engagement)
           /\ Val(items[m].engagement).score = Some(-5)
           /\ items[m].score \in 0..100

\* C10: the composite score of an item is the clamp to [0, 100] of the
\* truncation of 0.30 idea_quality + 0.25 engagement + 0.20 market_signal
\* + 0.15 growth + 0.10 recency, less 10 when the raw engagement is null and
\* less 10 when date_confidence is low, computed from the subscores in
\* item.subs; subscores (100, 50, 75, 40, 20) without penalties give 65.
C10_CompositeFormula ==
    Scored => \A k \in DOMAIN items :
                  /\ items[k].score
                         = CompositeOfSubs(items[k], IF RawIsNull(items[k]) THEN 10 ELSE 0)
                  /\ (/\ items[k].subs = [idea_quality |-> 100, engagement |-> 50,
                                          market_signal |-> 75, growth |-> 40,
                                          recency |-> 20]
                      /\ ~RawIsNull(items[k])
                      /\ items[k].date_confidence # "low")
                         => items[k].score = 65

C10_Witness ==
    /\ pc = "scored"
    /\ \E k \in DOMAIN items :
           /\ items[k].subs = [idea_quality |-> 100, engagement |-> 50,
                               market_signal |-> 75, growth |-> 40, recency |-> 20]
           /\ ~RawIsNull(items[k])
           /\ items[k].date_confidence # "low"
           /\ items[k].score = 65


---------------------------------------------------------------------------
(* Texts that normalize to the empty string *)

\* C7: two items whose compared text normalizes to the empty string are never
\* similar: their similarity is 0.0 and find_duplicates does not report them
\* as a duplicate pair.
C7_EmptyTextsNeverSimilar ==
    pc = "deduped"
        => \A i \in Indices(items) : \A j \in Indices(items) :
               (/\ i < j
                /\ normalize_text(items[i + 1].title) = <<>>
                /\ normalize_text(items[j + 1].title) = <<>>)
                   => /\ jaccard_similarity(get_ngrams(items[i + 1].title),
                                            get_ngrams(items[j + 1].title)).num = 0
                      /\ <<i, j>> \notin dup_pairs


---------------------------------------------------------------------------
(* score.py: sort_items *)

\* the code point of a character
CodePoint(c) ==
    CASE c = "\t" -> 9
      [] c = " " -> 32
      [] c = "!" -> 33
      [] c = "?" -> 63
      [] c \in DigitChars -> 48 + DigitValue(c)
      [] c = "A" -> 65
      [] c = "B" -> 66
      [] c = "C" -> 67
      [] c = "D" -> 68
      [] c = "_" -> 95
      [] c = "a" -> 97
      [] c = "b" -> 98
      [] c = "c" -> 99
      [] c = "d" -> 100
      [] c = "e" -> 101
      [] c = "f" -> 102

\* str < str: lexicographic by code point
RECURSIVE StrLess(_, _)
StrLess(s, t) ==
    IF t = <<>> THEN FALSE
    ELSE IF s = <<>> THEN TRUE
    ELSE IF s[1] # t[1] THEN CodePoint(s[1]) < CodePoint(t[1])
    ELSE StrLess(Tail(s), Tail(t))

\* date.replace("-", "")
RemoveDashes(t) == SelectSeq(t, LAMBDA c : c # "-")

\* int(text) succeeds: surrounding whitespace, an optional sign, then decimal
\* digits with single underscores between them
IsIntText(t) ==
    LET u == Strip(t)
        v == IF u # <<>> /\ u[1] \in {"+", "-"} THEN Tail(u) ELSE u
    IN  /\ v # <<>>
        /\ v[1] \in DigitChars
        /\ v[Len(v)] \in DigitChars
        /\ \A k \in DOMAIN v : v[k] \in DigitChars \cup {"_"}
        /\ \A k \in 1..(Len(v) - 1) : ~(v[k] = "_" /\ v[k + 1] = "_")

\* the magnitude int(text) gives for a text it accepts
IntOfText(t) == IntOfDigits(SelectSeq(t, LAMBDA c : c \in DigitChars))

\* item.date or "0000-00-00"
DateOrZero(date) ==
    IF IsNone(date) \/ Val(date) = <<>>
    THEN <<"0", "0", "0", "0", "-", "0", "0", "-", "0", "0">>
    ELSE Val(date)

\* sort_key raises ValueError on this item
SortKeyRaises(item) == ~IsIntText(RemoveDashes(DateOrZero(item.date)))

\* mutant: the date key is not negated, so the earlier date comes first
sort_key_date_ascending(item) ==
    <<-item.score,
      IntOfText(RemoveDashes(DateOrZero(item.date))),
      IF item.source = "reddit" THEN 0 ELSE 1,
      item.title>>

sort_key(item) ==
    <<-item.score,
      -IntOfText(RemoveDashes(DateOrZero(item.date))),
      IF item.source = "reddit" THEN 0 ELSE 1,
      item.title>>

\* tuple < tuple on two keys
KeyLess(k1, k2) ==
    IF k1[1] # k2[1] THEN k1[1] < k2[1]
    ELSE IF k1[2] # k2[2] THEN k1[2] < k2[2]
    ELSE IF k1[3] # k2[3] THEN k1[3] < k2[3]
    ELSE StrLess(k1[4], k2[4])

\* mutant: an item is placed before the items of equal key
RECURSIVE InsertBeforeEqual(_, _)
InsertBeforeEqual(S, x) ==
    IF S = <<>> THEN <<x>>
    ELSE IF KeyLess(sort_key(S[1]), sort_key(x))
         THEN <<S[1]>> \o InsertBeforeEqual(Tail(S), x)
         ELSE <<x>> \o S

\* sorted() is stable: an item is placed after the items whose key is not greater
RECURSIVE InsertByKey(_, _)
InsertByKey(S, x) ==
    IF S = <<>> THEN <<x>>
    ELSE IF KeyLess(sort_key(x), sort_key(S[1]))
         THEN <<x>> \o S
         ELSE <<S[1]>> \o InsertByKey(Tail(S), x)

\* sorted(items, key=sort_key)
RECURSIVE sort_items(_)
sort_items(L) ==
    IF L = <<>> THEN <<>>
    ELSE InsertByKey(sort_items(SubSeq(L, 1, Len(L) - 1)), L[Len(L)])

\* mutant: items.sort(key=sort_key) on the list passed in, which is then returned
SortItemsInPlace ==
    /\ pc = "sort"
    /\ IF \E k \in DOMAIN items : SortKeyRaises(items[k])
       THEN /\ pc' = "sort_raised"
            /\ out' = out
            /\ items' = items
       ELSE /\ pc' = "sorted"
            /\ items' = sort_items(items)
            /\ out' = items'
    /\ UNCHANGED <<main, threshold, ngrams, parent, rank, ci, cj, clusters,
                   dup_pairs, to_remove, out2>>

\* sorted_items = sort_items(scored): a new list, or the ValueError of a key
SortItems ==
    /\ pc = "sort"
    /\ IF \E k \in DOMAIN items : SortKeyRaises(items[k])
       THEN /\ pc' = "sort_raised"
            /\ out' = out
       ELSE /\ pc' = "sorted"
            /\ out' = sort_items(items)
    /\ UNCHANGED <<main, items, threshold, ngrams, parent, rank, ci, cj, clusters,
                   dup_pairs, to_remove, out2>>

\* sort_items applied to its own output
SortAgain ==
    /\ pc = "sorted"
    /\ out2' = sort_items(out)
    /\ pc' = "sorted2"
    /\ UNCHANGED <<main, items, threshold, ngrams, parent, rank, ci, cj, clusters,
                   dup_pairs, to_remove, out>>

SortNext ==
    \/ SortItems
    \/ SortAgain

MaxSortItems == 3

EarlyDate == Some(<<"2", "0", "2", "4", "-", "0", "2", "-", "0", "7">>)

\* scored items: every score, date and source with one title, further titles,
\* an empty date and a date that is not YYYY-MM-DD
SortItemPool ==
    {[MkItem(0, <<"a">>, src, <<>>) EXCEPT !.score = sc, !.date = d] :
        sc \in {60, 80}, d \in {None, EarlyDate, Some(Today)}, src \in {"reddit", "x"}}
    \cup {[MkItem(0, t, "reddit", <<>>) EXCEPT !.score = 80, !.date = EarlyDate] :
             t \in {<<"B">>, <<"a", "b">>}}
    \cup {[MkItem(0, <<"a">>, "reddit", <<>>) EXCEPT !.score = 60, !.date = d] :
             d \in {Some(<<>>), Some(<<"2", "0", "2", "4", "-", "0", "2", "-", "0", "7", "T", "0", "9", ":", "3", "0">>)}}

SortInit ==
    /\ pc = "sort"
    /\ items \in {WithIds(L) : L \in ListsUpTo(SortItemPool, MaxSortItems)}
    /\ threshold = Frac(3, 10)
    /\ ngrams = <<>>
    /\ parent = <<>>
    /\ rank = <<>>
    /\ ci = 0
    /\ cj = 0
    /\ clusters = <<>>
    /\ dup_pairs = {}
    /\ to_remove = {}
    /\ out = <<>>
    /\ out2 = <<>>
    /\ main = MainIdle

SpecSort == SortInit /\ [][SortNext]_vars

---------------------------------------------------------------------------
(* Sorting: the claims *)

\* the position in the list L of the item with identifier id
PosOfId(L, id) == CHOOSE k \in DOMAIN L : L[k].id = id

\* C8 as stated: the sort key is a strict total order on the items of a
\* list: no two distinct items (different id) have equal keys, so the key
\* alone fixes the relative position of every pair in the output.
C8_StrictTotalOrder ==
    pc = "sorted"
        => \A k \in DOMAIN items : \A m \in DOMAIN items :
               items[k].id # items[m].id => sort_key(items[k]) # sort_key(items[m])

\* C8 amended: the key orders the items totally but not strictly. Two items
\* have equal keys exactly when score, date key, source priority and title
\* agree, whatever their ids; in the output an item of smaller key precedes
\* one of greater key, and items of equal key keep their input order.
C8_KeyOrderThenInputOrder ==
    pc = "sorted"
        => LET key == [k \in DOMAIN items |-> sort_key(items[k])] \o <<>>
               pos == [k \in DOMAIN items |-> PosOfId(out, items[k].id)] \o <<>>
           IN  /\ Len(out) = Len(items)
               /\ \A k \in DOMAIN items : out[pos[k]] = items[k]
               /\ \A k \in DOMAIN items : \A m \in DOMAIN items :
                      /\ (key[k] = key[m])
                             <=> (/\ items[k].score = items[m].score
                                  /\ IntOfDigits(RemoveDashes(DateOrZero(items[k].date)))
                                         = IntOfDigits(RemoveDashes(DateOrZero(items[m].date)))
                                  /\ (items[k].source = "reddit") <=> (items[m].source = "reddit")
                                  /\ items[k].title = items[m].title)
                      /\ KeyLess(key[k], key[m]) \/ KeyLess(key[m], key[k]) \/ key[k] = key[m]
                      /\ KeyLess(key[k], key[m]) => pos[k] < pos[m]
                      /\ (key[k] = key[m] /\ k < m) => pos[k] < pos[m]

C8_Witness ==
    /\ pc = "sorted"
    /\ Len(items) = 3
    /\ sort_key(items[1]) = sort_key(items[3])
    /\ KeyLess(sort_key(items[2]), sort_key(items[1]))
    /\ out = <<items[2], items[1], items[3]>>


---------------------------------------------------------------------------
(* cluster_ideas: market signal and cluster ids *)

\* the number of items of L that share the cluster_id of item k
ClusterSizeOf(L, k) ==
    Cardinality({m \in DOMAIN L : L[m].cluster_id = L[k].cluster_id})

\* C11: after cluster_ideas on n >= 1 items every item's market_signal is
\* min(25 * k, 100), k the number of items sharing its cluster_id (25, 50, 75,
\* then 100 from four on), so it never decreases with the cluster size and is
\* one of 25, 50, 75, 100.
C11_MarketSignalBySize ==
    (pc = "clustered" /\ Len(items) >= 1)
        => /\ \A k \in DOMAIN items :
                  LET n == ClusterSizeOf(items, k)
                  IN  /\ items[k].market_signal
                             = (CASE n = 1 -> 25 [] n = 2 -> 50 [] n = 3 -> 75 [] n >= 4 -> 100)
                      /\ items[k].market_signal \in {25, 50, 75, 100}
           /\ \A k \in DOMAIN items : \A m \in DOMAIN items :
                  ClusterSizeOf(items, k) <= ClusterSizeOf(items, m)
                      => items[k].market_signal <= items[m].market_signal

C11_Witness ==
    /\ pc = "clustered"
    /\ Len(items) = 4
    /\ \E k \in DOMAIN items : ClusterSizeOf(items, k) = 3 /\ items[k].market_signal = 75
    /\ \E m \in DOMAIN items : ClusterSizeOf(items, m) = 1 /\ items[m].market_signal = 25


---------------------------------------------------------------------------
(* dedupe_saas: shape of the output *)

\* C12: the output of dedupe_saas is an order-preserving subsequence of its
\* input: not longer than the input, every output item is an input item,
\* survivors keep their relative order, and an input of 0 or 1 items is
\* returned unchanged.
C12_OrderPreservingSubsequence ==
    pc = "deduped"
        => /\ Len(out) <= Len(items)
           /\ \A k \in DOMAIN out : \E m \in DOMAIN items : out[k] = items[m]
           /\ \A k \in DOMAIN out : \A k2 \in DOMAIN out :
                  k < k2 => PosOfId(items, out[k].id) < PosOfId(items, out[k2].id)
           /\ Len(items) <= 1 => out = items

C12_Witness ==
    /\ pc = "deduped"
    /\ Len(items) = 3
    /\ to_remove = {1}
    /\ out = <<items[1], items[3]>>


---------------------------------------------------------------------------
(* sort_items: dates that are not YYYY-MM-DD *)

\* C13: sort_items never raises: for every list of scored items whose date
\* is null or any string, also a timestamp with a time part or free text, it
\* returns a sorted list and no call ends in an exception.
C13_SortNeverRaises == pc # "sort_raised"


---------------------------------------------------------------------------
(* jaccard_similarity on its own *)

MaxNgramSetSize == 2

\* n-grams over a small alphabet, the empty text among them
NgramUniverse ==
    {<<>>, <<"a", "b">>, <<"a", "b", "c">>, <<"b", "c", "d">>, <<"c", "d", "e">>}

NgramSetPool == {S \in SUBSET NgramUniverse : Cardinality(S) <= MaxNgramSetSize}

\* sim = jaccard_similarity(ngrams[0], ngrams[1]); out holds the value returned
Jaccard ==
    /\ pc = "jaccard"
    /\ out' = jaccard_similarity(ngrams[0], ngrams[1])
    /\ pc' = "jaccard_done"
    /\ UNCHANGED <<main, items, threshold, ngrams, parent, rank, ci, cj, clusters,
                   dup_pairs, to_remove, out2>>

JaccardNext ==
    \/ Jaccard

JaccardInit ==
    /\ pc = "jaccard"
    /\ ngrams \in [0..1 -> NgramSetPool]
    /\ items = <<>>
    /\ threshold = Frac(3, 10)
    /\ parent = <<>>
    /\ rank = <<>>
    /\ ci = 0
    /\ cj = 0
    /\ clusters = <<>>
    /\ dup_pairs = {}
    /\ to_remove = {}
    /\ out = <<>>
    /\ out2 = <<>>
    /\ main = MainIdle

SpecJaccard == JaccardInit /\ [][JaccardNext]_vars

\* C14: jaccard_similarity is symmetric, gives 1.0 for a non-empty set with
\* itself, stays within [0, 1], and gives 0.0 without a division by zero when
\* either set is empty.
C14_JaccardProperties ==
    pc = "jaccard_done"
        => LET A == ngrams[0]
               B == ngrams[1]
               self == jaccard_similarity(A, A)
           IN  /\ out = jaccard_similarity(B, A)
               /\ out.den > 0
               /\ 0 <= out.num /\ out.num <= out.den
               /\ self.den > 0
               /\ A # {} => self.num = self.den
               /\ (A = {} \/ B = {}) => out.num = 0

C14_Witness ==
    /\ pc = "jaccard_done"
    /\ ngrams[0] = {}
    /\ ngrams[1] = {<<"a", "b", "c">>, <<"b", "c", "d">>}
    /\ out = Frac(0, 1)


---------------------------------------------------------------------------
(* dedupe_saas: titles with the same normalized text *)

\* items i and j of L have the same non-empty normalized title
NormalizedTwins(L, i, j) ==
    /\ normalize_text(L[i + 1].title) = normalize_text(L[j + 1].title)
    /\ normalize_text(L[i + 1].title) # <<>>

\* C15 as stated: two items whose normalized titles are the same non-empty
\* text are reported as a duplicate pair at every threshold <= 1.0, the one
\* with the lower score is removed and the other is kept.
C15_TwinsLowerRemovedOtherKept ==
    pc = "deduped"
        => \A i \in Indices(items) : \A j \in Indices(items) :
               (i < j /\ NormalizedTwins(items, i, j))
                   => /\ <<i, j>> \in dup_pairs
                      /\ \A p \in {<<i, j>>, <<j, i>>} :
                             items[p[1] + 1].score > items[p[2] + 1].score
                                 => /\ items[p[2] + 1].id \notin IdsOf(out)
                                    /\ items[p[1] + 1].id \in IdsOf(out)

\* C15 amended: such a pair is reported at every threshold <= 1.0 and the
\* member with the lower score is removed; the other member is kept exactly
\* when it loses no other duplicate pair of the list.
C15_TwinsLowerRemoved ==
    pc = "deduped"
        => \A i \in Indices(items) : \A j \in Indices(items) :
               (i < j /\ NormalizedTwins(items, i, j))
                   => /\ <<i, j>> \in dup_pairs
                      /\ \A p \in {<<i, j>>, <<j, i>>} :
                             items[p[1] + 1].score > items[p[2] + 1].score
                                 => /\ items[p[2] + 1].id \notin IdsOf(out)
                                    /\ (items[p[1] + 1].id \in IdsOf(out))
                                           <=> ~(\E m \in Indices(items) :
                                                     LosesTo(items, dup_pairs, p[1], m))

C15_Witness ==
    /\ pc = "deduped"
    /\ threshold = Frac(1, 1)
    /\ Len(items) = 2
    /\ items[1].title = <<"A", "b", "C", "d", "!">>
    /\ items[2].title = <<"a", "b", "c", "d">>
    /\ items[1].score = 60
    /\ items[2].score = 80
    /\ dup_pairs = {<<0, 1>>}
    /\ out = <<items[2]>>


---------------------------------------------------------------------------
(* sort_items: purity and re-application *)

\* C16: sort_items returns a permutation of its input with every field of
\* every item as it was, leaves the input list in its order, keeps the input
\* order of items with equal keys, and sorting its output again changes
\* nothing.
C16_PureAndStable ==
    [][ /\ (pc = "sort" /\ pc' = "sorted")
            => /\ items' = items
               /\ Len(out') = Len(items)
               /\ \A k \in DOMAIN items :
                      \E m \in DOMAIN out' :
                          /\ out'[m] = items[k]
                          /\ \A m2 \in DOMAIN out' : out'[m2].id = items[k].id => m2 = m
               /\ \A k \in DOMAIN items : \A k2 \in DOMAIN items :
                      (k < k2 /\ sort_key(items[k]) = sort_key(items[k2]))
                          => PosOfId(out', items[k].id) < PosOfId(out', items[k2].id)
        /\ (pc = "sorted" /\ pc' = "sorted2")
            => /\ out2' = out
               /\ items' = items
               /\ out' = out ]_vars

C16_Witness ==
    /\ pc = "sorted2"
    /\ Len(items) = 3
    /\ sort_key(items[1]) = sort_key(items[2])
    /\ KeyLess(sort_key(items[3]), sort_key(items[1]))
    /\ out = <<items[3], items[1], items[2]>>
    /\ out2 = out


---------------------------------------------------------------------------
(* cluster_ideas as one call, for the pipeline of main *)

\* the pairs (i, j), i < j, in the order the nested loops visit them
PairsInLoopOrder(n) ==
    LET S == {p \in (0..(n - 1)) \X (0..(n - 1)) : p[1] < p[2]}
        before(p, q) == p[1] < q[1] \/ (p[1] = q[1] /\ p[2] < q[2])
    IN  [k \in 1..Cardinality(S) |->
            CHOOSE p \in S : Cardinality({q \in S : before(q, p)}) = k - 1]

\* lines 92-96: the unions of the pairs from position k on
RECURSIVE UnionPairs(_, _, _, _, _)
UnionPairs(uf, ng, th, pairs, k) ==
    IF k > Len(pairs) THEN uf
    ELSE LET i == pairs[k][1]
             j == pairs[k][2]
             u == IF FracGeq(jaccard_similarity(ng[i], ng[j]), th)
                  THEN UnionRun(uf.parent, uf.rank, i, j)
                  ELSE uf
         IN  UnionPairs(u, ng, th, pairs, k + 1)

\* lines 99-104: the dict root -> members built from index i on
RECURSIVE SweepFrom(_, _, _, _)
SweepFrom(par, cl, i, n) ==
    IF i >= n THEN cl
    ELSE LET f == FindRootRun(par, i)
             k == ClusterPos(cl, f.root)
             cl2 == IF k = 0
                    THEN Append(cl, [root |-> f.root, members |-> <<i>>])
                    ELSE [cl EXCEPT ![k].members = Append(@, i)]
         IN  SweepFrom(f.parent, cl2, i + 1, n)

\* mutant: the market signal is raised from the value the item holds
AssignClustersAdding(L, cl) ==
    [k \in 1..Len(L) |->
        LET c == CHOOSE c \in 1..Len(cl) :
                     \E m \in 1..Len(cl[c].members) : cl[c].members[m] = k - 1
        IN  [L[k] EXCEPT
                !.cluster_id = c - 1,
                !.market_signal =
                    Min2(L[k].market_signal + (Len(cl[c].members) - 1) * 25, 100)]]

\* lines 107-112: cluster_id and market_signal of every member
AssignClusters(L, cl) ==
    [k \in 1..Len(L) |->
        LET c == CHOOSE c \in 1..Len(cl) :
                     \E m \in 1..Len(cl[c].members) : cl[c].members[m] = k - 1
        IN  [L[k] EXCEPT
                !.cluster_id = c - 1,
                !.market_signal = MarketSignalOf(Len(cl[c].members))]]

cluster_ideas(L, th) ==
    IF Len(L) <= 1
    THEN [k \in 1..Len(L) |-> [L[k] EXCEPT !.market_signal = 25, !.cluster_id = 0]]
    ELSE LET n == Len(L)
             ng == [i \in Indices(L) |-> get_ngrams(L[i + 1].idea_summary)]
             uf == UnionPairs([parent |-> [i \in Indices(L) |-> i],
                               rank |-> [i \in Indices(L) |-> 0]],
                              ng, th, PairsInLoopOrder(n), 1)
             cl == SweepFrom(uf.parent, <<>>, 0, n)
         IN  AssignClusters(L, cl)

\* the stepwise run of cluster_ideas ends with the items this call returns
ClusterStepsAgree == pc = "clustered" => items = cluster_ideas(items, threshold)


---------------------------------------------------------------------------
(* saas_radar.py: the processing phase of main, from clustering on *)

\* threshold: float = 0.3 of cluster_ideas
CLUSTER_THRESHOLD == Frac(3, 10)

\* threshold: float = 0.7 of dedupe_saas
DEDUPE_THRESHOLD == Frac(7, 10)

\* clustered = idea_cluster.cluster_ideas(filtered): the items are changed in place
PipeCluster ==
    /\ pc = "pipe"
    /\ items' = cluster_ideas(items, CLUSTER_THRESHOLD)
    /\ out' = items'
    /\ pc' = "pipe_clustered"
    /\ UNCHANGED <<main, threshold, ngrams, parent, rank, ci, cj, clusters,
                   dup_pairs, to_remove, out2>>

\* scored = score.score_saas_items(clustered): the items are changed in place
PipeScore ==
    /\ pc = "pipe_clustered"
    /\ items' = score_saas_items(items)
    /\ out' = items'
    /\ pc' = "pipe_scored"
    /\ UNCHANGED <<main, threshold, ngrams, parent, rank, ci, cj, clusters,
                   dup_pairs, to_remove, out2>>

\* mutant: the sort is left out and the scored list goes to dedupe_saas as it is
PipeSortSkipped ==
    /\ pc = "pipe_scored"
    /\ IF \E k \in DOMAIN items : SortKeyRaises(items[k])
       THEN /\ pc' = "pipe_raised"
            /\ out' = out
       ELSE /\ pc' = "pipe_sorted"
            /\ out' = items
    /\ UNCHANGED <<main, items, threshold, ngrams, parent, rank, ci, cj, clusters,
                   dup_pairs, to_remove, out2>>

\* sorted_items = score.sort_items(scored): a new list
PipeSort ==
    /\ pc = "pipe_scored"
    /\ IF \E k \in DOMAIN items : SortKeyRaises(items[k])
       THEN /\ pc' = "pipe_raised"
            /\ out' = out
       ELSE /\ pc' = "pipe_sorted"
            /\ out' = sort_items(items)
    /\ UNCHANGED <<main, items, threshold, ngrams, parent, rank, ci, cj, clusters,
                   dup_pairs, to_remove, out2>>

\* deduped = dedupe.dedupe_saas(sorted_items); dup_pairs and to_remove keep
\* the locals of the call
PipeDedupe ==
    /\ pc = "pipe_sorted"
    /\ dup_pairs' = IF Len(out) <= 1 THEN {} ELSE find_duplicates(out, DEDUPE_THRESHOLD)
    /\ to_remove' = ToRemove(out, dup_pairs')
    /\ out' = IF Len(out) <= 1 THEN out ELSE KeepNotRemoved(out, to_remove')
    /\ pc' = "pipe_done"
    /\ UNCHANGED <<main, items, threshold, ngrams, parent, rank, ci, cj, clusters, out2>>

\* the four stages run once more on the list of the first run, whose items
\* carry the values that run gave them; out2 is the list this run returns
PipeRerun ==
    /\ pc = "pipe_done"
    /\ ~(\E k \in DOMAIN items : SortKeyRaises(items[k]))
    /\ items' = score_saas_items(cluster_ideas(items, CLUSTER_THRESHOLD))
    /\ out2' = dedupe_saas(sort_items(items'), DEDUPE_THRESHOLD)
    /\ pc' = "pipe_done2"
    /\ UNCHANGED <<main, threshold, ngrams, parent, rank, ci, cj, clusters,
                   dup_pairs, to_remove, out>>

PipeNext ==
    \/ PipeCluster
    \/ PipeScore
    \/ PipeSort
    \/ PipeDedupe
    \/ PipeRerun

MaxPipeItems == 3

\* normalized items as the processing phase receives them:
\* (title, source, idea_summary, engagement, signal_type, target_audience,
\*  subreddit_growth, date, date_confidence)
PipeItemPool ==
    {[MkItem(0, f[1], f[2], f[3]) EXCEPT
         !.engagement = f[4], !.signal_type = f[5], !.target_audience = f[6],
         !.subreddit_growth = f[7], !.date = f[8], !.date_confidence = f[9]] :
     f \in {<<<<"a", "b", "c", "d">>, "reddit", <<"a", "b", "c", "d">>,
              Some(Engagement(Some(100), Some(3), Some(90), None, None, None, None)),
              "wish", LongAudience, 130, EarlyDate, "high">>,
            <<<<"A", "b", "C", "d", "!">>, "reddit", <<"a", "b", "c", "d">>,
              Some(Engagement(Some(-5), Some(0), Some(0), None, None, None, None)),
              "wish", LongAudience, 130, EarlyDate, "high">>,
            <<<<"A", "b", "C", "d", "!">>, "x", <<"B", "c", "d", "e", "!">>,
              None, "rant", <<>>, 100, None, "low">>,
            <<<<"c", "d", "e", "f">>, "reddit", <<"B", "c", "d", "e", "!">>,
              Some(Engagement(Some(100), Some(3), Some(90), None, None, None, None)),
              "rant", <<>>, 50, None, "low">>,
            <<<<"c", "d", "e", "f">>, "x", <<"a", "b">>,
              Some(Engagement(None, None, None, Some(3), None, None, None)),
              "wish", LongAudience, 100, Some(Today), "high">>,
            <<<<"a", "b", "c", "d">>, "reddit", <<"a", "b">>,
              Some(Engagement(Some(-5), Some(0), Some(0), None, None, None, None)),
              "problem", <<>>, 300, Some(Today), "high">>}}

PipeInit ==
    /\ pc = "pipe"
    /\ items \in {WithIds(L) : L \in ListsUpTo(PipeItemPool, MaxPipeItems)}
    /\ threshold = CLUSTER_THRESHOLD
    /\ ngrams = <<>>
    /\ parent = <<>>
    /\ rank = <<>>
    /\ ci = 0
    /\ cj = 0
    /\ clusters = <<>>
    /\ dup_pairs = {}
    /\ to_remove = {}
    /\ out = <<>>
    /\ out2 = <<>>
    /\ main = MainIdle

SpecPipeline == PipeInit /\ [][PipeNext]_vars

\* C17: the pipeline cluster_ideas, score_saas_items, sort_items, dedupe_saas
\* is deterministic: a run returns the list the four functions determine from
\* its input, and a second run on the items the first run has changed returns
\* the same surviving items in the same order with the same cluster_id,
\* market_signal, subscores and score.
C17_PipelineDeterministic ==
    /\ pc \in {"pipe_done", "pipe_done2"}
           => out = dedupe_saas(sort_items(score_saas_items(
                        cluster_ideas(items, CLUSTER_THRESHOLD))), DEDUPE_THRESHOLD)
    /\ pc = "pipe_done2" => out2 = out

C17_Witness ==
    /\ pc = "pipe_done2"
    /\ Len(items) = 3
    /\ Len(out) = 2
    /\ out[1].id # 0
    /\ \E k \in DOMAIN out : out[k].market_signal = 50
    /\ out2 = out


---------------------------------------------------------------------------
(* cluster_ideas: the cluster ids *)

\* the cluster ids in use
ClusterIdsOf(L) == {L[k].cluster_id : k \in DOMAIN L}

\* the clusters of a run on two or more items: the sets of indices connected
\* by similar pairs
SimilarityClusters == {SimilarComponent(ngrams, threshold, {a}) : a \in Indices(items)}

\* C18: after cluster_ideas on n >= 1 items every item has a cluster_id >= 0,
\* none is left unassigned, the ids in use are exactly 0..c-1 for c clusters,
\* distinct clusters have distinct ids, and a single item gets cluster_id 0
\* and market_signal 25 without any similarity comparison.
C18_ClusterIdsContiguous ==
    (pc = "clustered" /\ Len(items) >= 1)
        => /\ \A k \in DOMAIN items :
                  items[k].cluster_id \in Nat /\ items[k].cluster_id # Unassigned
           /\ Len(items) = 1
                  => /\ items[1].cluster_id = 0
                     /\ items[1].market_signal = 25
                     /\ ngrams = <<>>
                     /\ parent = <<>>
           /\ Len(items) >= 2
                  => /\ ClusterIdsOf(items) = 0..(Cardinality(SimilarityClusters) - 1)
                     /\ \A A \in SimilarityClusters : \A B \in SimilarityClusters :
                            A # B => \A a \in A : \A b \in B :
                                         items[a + 1].cluster_id # items[b + 1].cluster_id

C18_Witness ==
    /\ pc = "clustered"
    /\ Len(items) = 4
    /\ Cardinality(SimilarityClusters) = 3
    /\ ClusterIdsOf(items) = {0, 1, 2}
    /\ items[1].cluster_id = 0
    /\ items[4].cluster_id = 1


---------------------------------------------------------------------------
(* saas_radar.py: main, the parallel search and the start of processing *)

coreVars == <<pc, items, threshold, ngrams, parent, rank, ci, cj, clusters,
              dup_pairs, to_remove, out, out2>>

MaxRawItems == 2

\* the title or text of the k-th item a search returns
RawTitle(k) ==
    CASE k = 1 -> <<"a", "b", "c", "d">>
      [] k = 2 -> <<"c", "d", "e", "f">>
      [] OTHER -> <<"A", "b", "C", "d", "!">>

\* the raw item dicts a search returns: n items of one source, a reddit item
\* with a title and an x item with a text, none with a date or an engagement
RawList(source, n) ==
    [k \in 1..n |->
        IF source = "reddit"
        THEN [id |-> <<"R", k>>, title |-> RawTitle(k), date |-> None]
        ELSE [id |-> <<"X", k>>, text |-> RawTitle(k), date |-> None]]

\* what _search_reddit and _search_x return: the parsed items with no error,
\* or no items with the error string of the failed request
SearchOutcomes(source) ==
    {[items |-> RawList(source, n), error |-> None] : n \in 0..MaxRawItems}
    \cup {[items |-> <<>>, error |-> Some("API error")]}

\* mutant: result() and the exit of the executor return at once
FutureDoneOrRunning(f) == f \in {"returned", "raised", "running"}

\* the task of a future has returned or raised
FutureDone(f) == f \in {"returned", "raised"}

\* lines 266-271: executor.submit(_search_reddit, ...) when run_reddit
MainSubmitReddit ==
    /\ main.pc = "submit_reddit"
    /\ main' = [main EXCEPT
                   !.pc = "submit_x",
                   !.reddit_future = IF main.run_reddit THEN "running" ELSE "none"]
    /\ UNCHANGED coreVars

\* lines 273-278: executor.submit(_search_x, ...) when run_x
MainSubmitX ==
    /\ main.pc = "submit_x"
    /\ main' = [main EXCEPT
                   !.pc = "result_reddit",
                   !.x_future = IF main.run_x THEN "running" ELSE "none"]
    /\ UNCHANGED coreVars

\* worker thread: _search_reddit returns (reddit_items, raw_openai, error)
SearchRedditReturn ==
    /\ main.reddit_future = "running"
    /\ \E r \in SearchOutcomes("reddit") :
           main' = [main EXCEPT !.reddit_future = "returned", !.reddit_result = Some(r)]
    /\ UNCHANGED coreVars

\* worker thread: _search_reddit raises (load_fixture or parse_reddit_response)
SearchRedditRaise ==
    /\ main.reddit_future = "running"
    /\ main' = [main EXCEPT !.reddit_future = "raised"]
    /\ UNCHANGED coreVars

\* worker thread: _search_x returns (x_items, raw_xai, error)
SearchXReturn ==
    /\ main.x_future = "running"
    /\ \E r \in SearchOutcomes("x") :
           main' = [main EXCEPT !.x_future = "returned", !.x_result = Some(r)]
    /\ UNCHANGED coreVars

\* worker thread: _search_x raises (load_fixture or parse_x_response)
SearchXRaise ==
    /\ main.x_future = "running"
    /\ main' = [main EXCEPT !.x_future = "raised"]
    /\ UNCHANGED coreVars

\* lines 280-288: reddit_future.result(), which blocks until the task is done
MainResultReddit ==
    /\ main.pc = "result_reddit"
    /\ IF main.reddit_future = "none"
       THEN main' = [main EXCEPT !.pc = "result_x"]
       ELSE /\ FutureDone(main.reddit_future)
            /\ main' = IF main.reddit_future = "returned"
                       THEN [main EXCEPT
                                !.pc = "result_x",
                                !.reddit_items = Val(main.reddit_result).items,
                                !.reddit_error = Val(main.reddit_result).error]
                       ELSE [main EXCEPT
                                !.pc = "result_x",
                                !.reddit_error = Some("exception")]
    /\ UNCHANGED coreVars

\* lines 290-298: x_future.result(), which blocks until the task is done
MainResultX ==
    /\ main.pc = "result_x"
    /\ IF main.x_future = "none"
       THEN main' = [main EXCEPT !.pc = "exit_executor"]
       ELSE /\ FutureDone(main.x_future)
            /\ main' = IF main.x_future = "returned"
                       THEN [main EXCEPT
                                !.pc = "exit_executor",
                                !.x_items = Val(main.x_result).items,
                                !.x_error = Val(main.x_result).error]
                       ELSE [main EXCEPT
                                !.pc = "exit_executor",
                                !.x_error = Some("exception")]
    /\ UNCHANGED coreVars

\* line 265: leaving the with block is executor.shutdown(wait=True)
MainExitExecutor ==
    /\ main.pc = "exit_executor"
    /\ main.reddit_future = "none" \/ FutureDone(main.reddit_future)
    /\ main.x_future = "none" \/ FutureDone(main.x_future)
    /\ main' = [main EXCEPT !.pc = "enrich"]
    /\ UNCHANGED coreVars

\* lines 302-320: the enrichment loop over reddit_items, in the main thread
MainEnrich ==
    /\ main.pc = "enrich"
    /\ main' = [main EXCEPT !.pc = "processing"]
    /\ UNCHANGED coreVars

\* dates.get_date_range(180): the first and the last day of the window
FromDate == <<"2", "0", "2", "4", "-", "0", "1", "-", "0", "2">>

ToDate == Today

\* dates.get_date_confidence(date, from_date, to_date): low without a date
\* or outside the window
get_date_confidence(date, from_date, to_date) ==
    IF IsNone(date) THEN "low"
    ELSE IF StrLess(Val(date), from_date) \/ StrLess(to_date, Val(date)) THEN "low"
    ELSE "high"

\* normalize_reddit_saas_items: one SaaSIdeaItem per raw dict, in order
normalize_reddit_saas_items(raw, from_date, to_date) ==
    [k \in 1..Len(raw) |->
        [MkItem(raw[k].id, raw[k].title, "reddit", <<>>) EXCEPT
            !.date = raw[k].date,
            !.date_confidence = get_date_confidence(raw[k].date, from_date, to_date)]]

\* normalize_x_saas_items: the text of the post is the title
normalize_x_saas_items(raw, from_date, to_date) ==
    [k \in 1..Len(raw) |->
        [MkItem(raw[k].id, raw[k].text, "x", <<>>) EXCEPT
            !.date = raw[k].date,
            !.date_confidence = get_date_confidence(raw[k].date, from_date, to_date)]]

\* filter_by_date_range with require_date=False: undated items stay, dated
\* items stay when from_date <= date <= to_date as strings
filter_by_date_range(L, from_date, to_date) ==
    SelectSeq(L, LAMBDA item :
        \/ IsNone(item.date)
        \/ /\ ~StrLess(Val(item.date), from_date)
           /\ ~StrLess(to_date, Val(item.date)))

\* mutant: the items of a source are normalized only when the other source
\* reported no error
AllItemsUnlessError(m) ==
    (IF IsNone(m.x_error)
     THEN normalize_reddit_saas_items(m.reddit_items, FromDate, ToDate) ELSE <<>>)
    \o (IF IsNone(m.reddit_error)
        THEN normalize_x_saas_items(m.x_items, FromDate, ToDate) ELSE <<>>)

\* lines 327-334: all_items = normalized_reddit + normalized_x
AllItems(m) ==
    normalize_reddit_saas_items(m.reddit_items, FromDate, ToDate)
    \o normalize_x_saas_items(m.x_items, FromDate, ToDate)

\* lines 337-349: filter, cluster, score, sort, dedupe
ProcessItems(all_items) ==
    dedupe_saas(
        sort_items(
            score_saas_items(
                cluster_ideas(filter_by_date_range(all_items, FromDate, ToDate),
                              CLUSTER_THRESHOLD))),
        DEDUPE_THRESHOLD)

\* lines 324-351: the processing phase; an exception of sort_key ends the run
MainProcess ==
    /\ main.pc = "processing"
    /\ LET all_items == AllItems(main)
       IN  IF \E k \in DOMAIN all_items : SortKeyRaises(all_items[k])
           THEN main' = [main EXCEPT !.pc = "crashed", !.all_items = all_items]
           ELSE main' = [main EXCEPT
                            !.pc = "output",
                            !.all_items = all_items,
                            !.deduped = ProcessItems(all_items)]
    /\ UNCHANGED coreVars

\* lines 355-378: the report is built with the items and both error strings
\* and is written
MainOutput ==
    /\ main.pc = "output"
    /\ main' = [main EXCEPT
                   !.pc = "done",
                   !.report = Some([items |-> main.deduped,
                                    reddit_error |-> main.reddit_error,
                                    x_error |-> main.x_error])]
    /\ UNCHANGED coreVars

MainNext ==
    \/ MainSubmitReddit
    \/ MainSubmitX
    \/ SearchRedditReturn
    \/ SearchRedditRaise
    \/ SearchXReturn
    \/ SearchXRaise
    \/ MainResultReddit
    \/ MainResultX
    \/ MainExitExecutor
    \/ MainEnrich
    \/ MainProcess
    \/ MainOutput

\* lines 251-263: sources is "both", "reddit" or "x"; nothing is submitted yet
MainInit ==
    /\ \E rr \in BOOLEAN : \E rx \in BOOLEAN :
           /\ rr \/ rx
           /\ main = [MainIdle EXCEPT !.pc = "submit_reddit", !.run_reddit = rr, !.run_x = rx]
    /\ pc = "main"
    /\ items = <<>>
    /\ threshold = CLUSTER_THRESHOLD
    /\ ngrams = <<>>
    /\ parent = <<>>
    /\ rank = <<>>
    /\ ci = 0
    /\ cj = 0
    /\ clusters = <<>>
    /\ dup_pairs = {}
    /\ to_remove = {}
    /\ out = <<>>
    /\ out2 = <<>>

SpecMain == MainInit /\ [][MainNext]_vars

\* C19: in main, whatever the interleaving of the two search threads, the
\* processing phase starts only after every submitted search task has
\* returned or raised; no stage of the core runs while a search is running.
C19_ProcessingAfterSearches ==
    main.pc \in {"processing", "output", "done"}
        => /\ main.reddit_future \in {"none", "returned", "raised"}
           /\ main.x_future \in {"none", "returned", "raised"}
           /\ main.run_reddit => main.reddit_future # "none"
           /\ main.run_x => main.x_future # "none"

C19_Witness ==
    /\ main.pc = "processing"
    /\ main.reddit_future = "raised"
    /\ main.x_future = "returned"
    /\ main.x_items = RawList("x", 2)


---------------------------------------------------------------------------
(* Claim about the removal set of dedupe_saas *)

\* the items that lose at least one of the duplicate pairs E of the list L
LosersOf(L, E) ==
    {k \in Indices(L) : \E m \in Indices(L) : LosesTo(L, E, k, m)}

\* C20: on a list of two or more items dedupe_saas removes exactly the items
\* that lose at least one duplicate pair, the pairs being those of the full
\* input: in a pair (i, j), i < j, j loses when score[i] >= score[j] and i
\* loses otherwise; an item that loses several pairs is removed once and an
\* item that loses no pair is kept.
C20_RemovedExactlyTheLosers ==
    (pc = "deduped" /\ Len(items) >= 2) =>
        LET losers == LosersOf(items, dup_pairs)
        IN  /\ dup_pairs = find_duplicates(items, threshold)
            /\ to_remove = losers
            /\ IdsOf(out) = {items[k + 1].id : k \in Indices(items) \ losers}
            /\ Len(out) = Len(items) - Cardinality(losers)

\* C20 witness: item 2 loses its pairs with item 0 and with item 1, which are
\* no duplicates of each other, and is removed once; items 0 and 1 are kept
C20_Witness ==
    /\ pc = "deduped"
    /\ Len(items) = 3
    /\ dup_pairs = {<<0, 2>>, <<1, 2>>}
    /\ items[3].score < items[1].score
    /\ items[3].score <= items[2].score
    /\ to_remove = {2}
    /\ out = <<items[1], items[2]>>


---------------------------------------------------------------------------
(* normalize_to_100 on the raw engagement values of a batch *)

\* the raw engagement values of the batch, as score_saas_items collects them
EngRawValues == [k \in DOMAIN items |-> EngRawOf(items[k])] \o <<>>

\* the positions of the batch whose raw engagement is not null
ValidPositions == {k \in DOMAIN items : ~RawIsNull(items[k])}

---------------------------------------------------------------------------
(* The rank order of sort_items *)

\* the item has no date: date is None or the empty string
HasNoDate(item) == IsNone(item.date) \/ Val(item.date) = <<>>

\* the text is a date YYYY-MM-DD
IsIsoDate(t) ==
    /\ Len(t) = 10
    /\ t[5] = "-"
    /\ t[8] = "-"
    /\ \A k \in {1, 2, 3, 4, 6, 7, 9, 10} : t[k] \in DigitChars

\* <<year, month, day>> of a date YYYY-MM-DD
DateFields(t) ==
    <<IntOfDigits(SubSeq(t, 1, 4)), IntOfDigits(SubSeq(t, 6, 7)),
      IntOfDigits(SubSeq(t, 9, 10))>>

\* the date of item a is later than the date of item b; an item without a
\* date is earlier than every dated item
DateLater(a, b) ==
    IF HasNoDate(a) THEN FALSE
    ELSE IF HasNoDate(b) THEN TRUE
    ELSE LET x == DateFields(Val(a.date))
             y == DateFields(Val(b.date))
         IN  \/ x[1] > y[1]
             \/ x[1] = y[1] /\ x[2] > y[2]
             \/ x[1] = y[1] /\ x[2] = y[2] /\ x[3] > y[3]

\* item a ranks above item b: higher score, then later date, then reddit
\* before x, then the smaller title
RanksAbove(a, b) ==
    \/ a.score > b.score
    \/ /\ a.score = b.score
       /\ DateLater(a, b)
    \/ /\ a.score = b.score
       /\ ~DateLater(a, b) /\ ~DateLater(b, a)
       /\ a.source = "reddit" /\ b.source = "x"
    \/ /\ a.score = b.score
       /\ ~DateLater(a, b) /\ ~DateLater(b, a)
       /\ a.source = b.source
       /\ StrLess(a.title, b.title)

\* C22: in the output of sort_items every item precedes every item that ranks
\* lower: higher composite score first; among equal scores the later date
\* first, a null date below every real date; among equal score and date a
\* reddit item before an x item; among equal score, date and source the
\* lexicographically smaller title first.
C22_RankOrder ==
    (/\ pc = "sorted"
     /\ \A k \in DOMAIN items : HasNoDate(items[k]) \/ IsIsoDate(Val(items[k].date)))
        => \A i \in DOMAIN out : \A j \in DOMAIN out :
               RanksAbove(out[i], out[j]) => i < j

\* C22 witness: three items of one score given in rising rank: an x item
\* without a date, a reddit item of an earlier date with the smaller title,
\* and an x item of the latest date; the output is the reverse
C22_Witness ==
    /\ pc = "sorted"
    /\ Len(items) = 3
    /\ items[1].score = items[2].score
    /\ items[2].score = items[3].score
    /\ IsNone(items[1].date) /\ items[1].source = "x"
    /\ items[2].date = EarlyDate /\ items[2].source = "reddit"
    /\ items[3].date = Some(Today) /\ items[3].source = "x"
    /\ out = <<items[3], items[2], items[1]>>


---------------------------------------------------------------------------
(* normalize_text on its own *)

MaxTextLen == 3

\* an upper-case and a lower-case letter, a digit, the underscore, a
\* punctuation mark, a space and a tab
TextAlphabet == {"B", "a", "1", "_", "!", " ", "\t"}

\* out = normalize_text(text), text being the title of the one item
NormalizeText ==
    /\ pc = "normalize"
    /\ out' = normalize_text(items[1].title)
    /\ pc' = "normalized"
    /\ UNCHANGED <<main, items, threshold, ngrams, parent, rank, ci, cj, clusters,
                   dup_pairs, to_remove, out2>>

\* normalize_text applied to its own output
NormalizeTextAgain ==
    /\ pc = "normalized"
    /\ out2' = normalize_text(out)
    /\ pc' = "normalized2"
    /\ UNCHANGED <<main, items, threshold, ngrams, parent, rank, ci, cj, clusters,
                   dup_pairs, to_remove, out>>

NormalizeNext ==
    \/ NormalizeText
    \/ NormalizeTextAgain

NormalizeInit ==
    /\ pc = "normalize"
    /\ items \in {<<MkItem(0, t, "reddit", <<>>)>> : t \in ListsUpTo(TextAlphabet, MaxTextLen)}
    /\ threshold = Frac(3, 10)
    /\ ngrams = <<>>
    /\ parent = <<>>
    /\ rank = <<>>
    /\ ci = 0
    /\ cj = 0
    /\ clusters = <<>>
    /\ dup_pairs = {}
    /\ to_remove = {}
    /\ out = <<>>
    /\ out2 = <<>>
    /\ main = MainIdle

SpecNormalize == NormalizeInit /\ [][NormalizeNext]_vars

\* C23: for every text of upper- and lower-case letters, digits, underscore,
\* punctuation and whitespace, normalize_text returns a string of lower-case
\* letters, digits and single spaces only, with no space at either end and no
\* two adjacent spaces, and normalize_text is idempotent.
C23_OnlyLettersDigitsSingleSpaces ==
    /\ pc \in {"normalized", "normalized2"}
           => /\ \A k \in DOMAIN out : out[k] \in LowerLetters \cup DigitChars \cup {" "}
              /\ out # <<>> => out[1] # " " /\ out[Len(out)] # " "
              /\ \A k \in 1..(Len(out) - 1) : ~(out[k] = " " /\ out[k + 1] = " ")
    /\ pc = "normalized2" => out2 = out

\* what holds of the output: the underscore is kept as well, the spaces are
\* single and inner, and a second application changes nothing
NormalizeKeepsWordChars ==
    /\ pc \in {"normalized", "normalized2"}
           => /\ \A k \in DOMAIN out :
                     out[k] \in LowerLetters \cup DigitChars \cup {"_", " "}
              /\ out # <<>> => out[1] # " " /\ out[Len(out)] # " "
              /\ \A k \in 1..(Len(out) - 1) : ~(out[k] = " " /\ out[k + 1] = " ")
    /\ pc = "normalized2" => out2 = out


---------------------------------------------------------------------------
(* The raw engagement value of one item *)

\* a count as the API delivers it: missing, negative or positive
CountPool == {None, Some(-5), Some(3)}

\* upvote_ratio in hundredths: missing, 0.0 or 0.9
RatioPool == {None, Some(0), Some(90)}

\* an absent engagement struct and every struct over the pools
EngagementStructPool ==
    {None} \cup
    {Some(Engagement(sc, nc, ur, li, rp, re, qu)) :
        sc \in CountPool, nc \in CountPool, ur \in RatioPool,
        li \in CountPool, rp \in CountPool, re \in CountPool, qu \in CountPool}

\* lines 148-152 for one item: out is the value appended to eng_raw
EngRaw ==
    /\ pc = "eng_raw"
    /\ out' = EngRawOf(items[1])
    /\ pc' = "eng_raw_done"
    /\ UNCHANGED <<main, items, threshold, ngrams, parent, rank, ci, cj, clusters,
                   dup_pairs, to_remove, out2>>

EngRawNext ==
    \/ EngRaw

EngRawInit ==
    /\ pc = "eng_raw"
    /\ items \in {<<[MkItem(0, <<"a">>, src, <<>>) EXCEPT !.engagement = e]>> :
                     src \in {"reddit", "x"}, e \in EngagementStructPool}
    /\ threshold = Frac(3, 10)
    /\ ngrams = <<>>
    /\ parent = <<>>
    /\ rank = <<>>
    /\ ci = 0
    /\ cj = 0
    /\ clusters = <<>>
    /\ dup_pairs = {}
    /\ to_remove = {}
    /\ out = <<>>
    /\ out2 = <<>>
    /\ main = MainIdle

SpecEngRaw == EngRawInit /\ [][EngRawNext]_vars

\* what a count adds to the raw value before weighting, in ten-thousandths:
\* log1p of the count, and 0 for a missing or negative count
CountTerm(x) == IF IsNone(x) THEN 0 ELSE IF Val(x) < 0 THEN 0 ELSE Log1pMicro(Val(x))

\* C24: the raw engagement value of an item is null exactly when its
\* engagement struct is absent or both primary fields of the formula selected
\* by its source are absent (score and num_comments for reddit, likes and
\* reposts otherwise); in every other case it is a number to which each missing
\* or negative count contributes 0, so a missing secondary field or a negative
\* count never makes it null.
C24_RawNullExactlyWithoutPrimaries ==
    pc = "eng_raw_done" =>
        LET item == items[1]
            absent == IsNone(item.engagement)
            e == Val(item.engagement)
            noPrimaries ==
                IF item.source = "reddit"
                THEN IsNone(e.score) /\ IsNone(e.num_comments)
                ELSE IsNone(e.likes) /\ IsNone(e.reposts)
        IN  /\ IsNone(out) <=> (absent \/ noPrimaries)
            /\ ~IsNone(out) =>
                   Val(out) =
                       IF item.source = "reddit"
                       THEN 55 * CountTerm(e.score) + 40 * CountTerm(e.num_comments)
                            + 5 * RatioOrHalf(e.upvote_ratio) * 1000
                       ELSE 55 * CountTerm(e.likes) + 25 * CountTerm(e.reposts)
                            + 15 * CountTerm(e.replies) + 5 * CountTerm(e.quotes)

\* C24 witness: an x item with likes 3, no reposts, a negative reply count and
\* no quotes has the raw value 0.55 * log1p(3)
C24_Witness ==
    /\ pc = "eng_raw_done"
    /\ items[1].source = "x"
    /\ ~IsNone(items[1].engagement)
    /\ Val(items[1].engagement).likes = Some(3)
    /\ IsNone(Val(items[1].engagement).reposts)
    /\ Val(items[1].engagement).replies = Some(-5)
    /\ IsNone(Val(items[1].engagement).quotes)
    /\ out = Some(55 * 13863)


---------------------------------------------------------------------------
(* The idea-quality subscore *)

MaxAudienceLen == 11

\* the five signal kinds of SIGNAL_TYPE_SCORES, an unknown kind and the empty string
SignalKindPool == {"wish", "problem", "feature_gap", "building", "workflow", "rant", ""}

\* target_audience texts of every length up to the bound
AudiencePool == {[k \in 1..n |-> "a"] : n \in 0..MaxAudienceLen}

\* a batch of one item, to be scored by score_saas_items
IdeaQualityInit ==
    /\ pc = "score"
    /\ items \in {<<[MkItem(0, <<"a">>, "reddit", <<>>) EXCEPT
                        !.signal_type = kind, !.target_audience = aud]>> :
                     kind \in SignalKindPool, aud \in AudiencePool}
    /\ threshold = Frac(3, 10)
    /\ ngrams = <<>>
    /\ parent = <<>>
    /\ rank = <<>>
    /\ ci = 0
    /\ cj = 0
    /\ clusters = <<>>
    /\ dup_pairs = {}
    /\ to_remove = {}
    /\ out = <<>>
    /\ out2 = <<>>
    /\ main = MainIdle

SpecIdeaQuality == IdeaQualityInit /\ [][ScoreNext]_vars

\* the base value the specification gives a signal kind
KindBase(kind) ==
    LET table == [wish |-> 90, problem |-> 80, feature_gap |-> 75,
                  building |-> 70, workflow |-> 65]
    IN  IF kind \in DOMAIN table THEN table[kind] ELSE 65

\* C25: the idea-quality subscore of an item is the base value of its signal
\* kind (wish 90, problem 80, feature_gap 75, building 70, workflow 65, any
\* other kind 65) plus 10 when target_audience is present and longer than 10
\* characters, capped at 100; it is always in [65, 100], and an item of an
\* unknown kind is scored like any other.
C25_IdeaQuality ==
    pc = "scored" =>
        /\ Len(items) = Len(out)
        /\ \A k \in DOMAIN items :
               LET q == items[k].subs.idea_quality
                   bonus == IF Len(items[k].target_audience) > 10 THEN 10 ELSE 0
               IN  /\ q = Min2(KindBase(items[k].signal_type) + bonus, 100)
                   /\ q \in 65..100

\* C25 witness: an item of an unknown kind with an audience of exactly 11
\* characters is scored with idea quality 75
C25_Witness ==
    /\ pc = "scored"
    /\ Len(items) = 1
    /\ items[1].signal_type = "rant"
    /\ Len(items[1].target_audience) = 11
    /\ items[1].subs.idea_quality = 75


---------------------------------------------------------------------------
(* The cluster fields through the later stages *)

\* the item with its two cluster fields blanked
WithoutClusterFields(item) ==
    [item EXCEPT !.cluster_id = Unassigned, !.market_signal = DefaultMarketSignal]

\* the cluster fields of the item
ClusterFields(item) == <<item.cluster_id, item.market_signal>>

\* C26: once cluster_ideas has assigned cluster_id and market_signal, the
\* scorer, the sorter and the deduplicator leave them as they are on every
\* item, and the market_signal subscore the scorer stores equals the item's
\* market_signal; cluster_ideas itself changes nothing but these two fields
\* and returns the items in their input order.
C26_ClusterFieldsFramed ==
    [][/\ pc = "pipe"
           => /\ Len(items') = Len(items)
              /\ \A k \in DOMAIN items :
                     WithoutClusterFields(items'[k]) = WithoutClusterFields(items[k])
       /\ pc \in {"pipe_clustered", "pipe_scored", "pipe_sorted"}
           => /\ Len(items') = Len(items)
              /\ \A k \in DOMAIN items :
                     ClusterFields(items'[k]) = ClusterFields(items[k])
              /\ \A m \in DOMAIN out' :
                     \E k \in DOMAIN items :
                         /\ out'[m].id = items[k].id
                         /\ ClusterFields(out'[m]) = ClusterFields(items[k])
       /\ pc = "pipe_clustered"
           => \A k \in DOMAIN items :
                  items'[k].subs.market_signal = items[k].market_signal]_vars

\* C26 witness: a finished run in which a surviving item belongs to a cluster
\* of two, with market signal 50 on the item and in its subscores
C26_Witness ==
    /\ pc = "pipe_done"
    /\ \E m \in DOMAIN out :
           /\ out[m].market_signal = 50
           /\ out[m].subs.market_signal = 50
           /\ \E k \in DOMAIN items :
                  /\ items[k].id # out[m].id
                  /\ items[k].cluster_id = out[m].cluster_id


---------------------------------------------------------------------------
(* The survivors of dedupe_saas *)

\* the trigram Jaccard similarity of the titles of two items reaches th
TitlesSimilar(a, b, th) ==
    FracGeq(jaccard_similarity(get_ngrams(a.title), get_ngrams(b.title)), th)

\* C27: in the output of dedupe_saas no two surviving items are
\* near-duplicates of each other: the trigram Jaccard similarity of the titles
\* of any two distinct items of the output is strictly below the threshold,
\* whether or not the input was sorted by score.
C27_NoDuplicatesSurvive ==
    pc = "deduped"
        => \A a \in DOMAIN out : \A b \in DOMAIN out :
               a < b => ~TitlesSimilar(out[a], out[b], threshold)

\* C27 witness: an input in rising score order whose first and last items are
\* duplicates of each other and not of the item between them; the first is
\* removed and the two survivors are not similar
C27_Witness ==
    /\ pc = "deduped"
    /\ Len(items) = 3
    /\ items[1].score < items[2].score
    /\ items[2].score < items[3].score
    /\ dup_pairs = {<<0, 2>>}
    /\ out = <<items[2], items[3]>>
    /\ ~TitlesSimilar(out[1], out[2], threshold)


---------------------------------------------------------------------------
(* sort_items followed by dedupe_saas *)

\* the scores of the list never rise from one item to the next
ScoresNonIncreasing(L) ==
    \A k \in 1..(Len(L) - 1) : L[k].score >= L[k + 1].score

\* C28: in the pipeline as main runs it, sort_items then dedupe_saas, the
\* final list is ordered by composite score non-increasing, dedupe_saas
\* removes only the later-ranked member of a duplicate pair, and the
\* top-ranked item of the sorted list is the first item of the final list.
C28_SortedDedupeKeepsRankOrder ==
    [][pc = "pipe_sorted"
           => /\ ScoresNonIncreasing(out)
              /\ ScoresNonIncreasing(out')
              /\ to_remove' = {p[2] : p \in dup_pairs'}
              /\ \A p \in dup_pairs' : p[1] < p[2] /\ out[p[1] + 1].score >= out[p[2] + 1].score
              /\ out # <<>> => (out' # <<>> /\ out'[1] = out[1])]_vars

\* C28 witness: three items of which the second-ranked is a duplicate of the
\* top-ranked one and is removed; the first and the third remain in order
C28_Witness ==
    /\ pc = "pipe_done"
    /\ Len(items) = 3
    /\ dup_pairs = {<<0, 1>>}
    /\ to_remove = {1}
    /\ Len(out) = 2
    /\ out[1].score > out[2].score
    /\ out[1] = sort_items(items)[1]


---------------------------------------------------------------------------
(* One source fails, the other succeeds *)

\* the search task of the source has finished without a result to use: it
\* raised, or it returned an error string
RedditFailed(m) ==
    \/ m.reddit_future = "raised"
    \/ m.reddit_future = "returned" /\ ~IsNone(Val(m.reddit_result).error)

XFailed(m) ==
    \/ m.x_future = "raised"
    \/ m.x_future = "returned" /\ ~IsNone(Val(m.x_result).error)

\* the search task of the source returned items and no error
RedditSucceeded(m) ==
    m.reddit_future = "returned" /\ IsNone(Val(m.reddit_result).error)

XSucceeded(m) ==
    m.x_future = "returned" /\ IsNone(Val(m.x_result).error)

\* the report has been written with these items and error strings
ReportWritten(m) ==
    /\ m.pc = "done"
    /\ ~IsNone(m.report)
    /\ Val(m.report).items = ProcessItems(m.all_items)
    /\ Val(m.report).reddit_error = m.reddit_error
    /\ Val(m.report).x_error = m.x_error

\* the reddit search failed and the x search succeeded, and main has taken
\* both results
RedditLostXKept(m) ==
    /\ ~IsNone(m.reddit_error)
    /\ m.reddit_items = <<>>
    /\ IsNone(m.x_error)
    /\ m.x_items = Val(m.x_result).items

XLostRedditKept(m) ==
    /\ ~IsNone(m.x_error)
    /\ m.x_items = <<>>
    /\ IsNone(m.reddit_error)
    /\ m.reddit_items = Val(m.reddit_result).items

\* what main holds once it has left the executor: the error of the failed
\* source, its empty list and the items of the other source; and from the
\* end of processing on, the list processed and its result
C29_Safe(m) ==
    /\ m.pc \in {"enrich", "processing", "output", "done"}
           => /\ (RedditFailed(m) /\ XSucceeded(m)) => RedditLostXKept(m)
              /\ (XFailed(m) /\ RedditSucceeded(m)) => XLostRedditKept(m)
    /\ m.pc \in {"output", "done"}
           => /\ (RedditFailed(m) /\ XSucceeded(m))
                     => m.all_items
                            = normalize_x_saas_items(Val(m.x_result).items, FromDate, ToDate)
              /\ (XFailed(m) /\ RedditSucceeded(m))
                     => m.all_items
                            = normalize_reddit_saas_items(Val(m.reddit_result).items,
                                                          FromDate, ToDate)
              /\ m.deduped = ProcessItems(m.all_items)
    /\ m.pc = "done" => ReportWritten(m)

\* the steps of the main thread before and after the processing phase
MainStepsAroundProcessing ==
    \/ MainSubmitReddit
    \/ MainSubmitX
    \/ MainResultReddit
    \/ MainResultX
    \/ MainExitExecutor
    \/ MainEnrich
    \/ MainOutput

---------------------------------------------------------------------------
(* Claims about the union-find of cluster_ideas *)

\* the root reached from i by following parent pointers for at most fuel steps,
\* without compression; -1 when no self-parented index is reached
RECURSIVE WalkRoot(_, _, _)
WalkRoot(par, i, fuel) ==
    IF par[i] = i THEN i
    ELSE IF fuel = 0 THEN -1
    ELSE WalkRoot(par, par[i], fuel - 1)

RootOf(par, i) == WalkRoot(par, i, Cardinality(DOMAIN par))

\* every pointer stays inside the array and every index reaches a root in at most n steps
IsForest(par) ==
    \A i \in DOMAIN par : par[i] \in DOMAIN par /\ RootOf(par, i) # -1

SameRoots(p1, p2) ==
    /\ DOMAIN p1 = DOMAIN p2
    /\ \A k \in DOMAIN p1 : RootOf(p1, k) = RootOf(p2, k)

\* the parent arrays _find_root(par, i) goes through, one per loop iteration
RECURSIVE FindRootStates(_, _)
FindRootStates(par, i) ==
    IF par[i] = i
    THEN {par}
    ELSE LET p2 == [par EXCEPT ![i] = par[par[i]]]
         IN  {par} \cup FindRootStates(p2, p2[i])

\* _find_root(par, i): it takes at most n iterations, returns the root of i,
\* and every array it goes through is a forest with the roots of par
FindRootKeepsRoots(par, i) ==
    /\ Cardinality(FindRootStates(par, i)) <= Cardinality(DOMAIN par)
    /\ FindRootRun(par, i).root = RootOf(par, i)
    /\ \A q \in FindRootStates(par, i) : IsForest(q) /\ SameRoots(q, par)

C30_ForestState ==
    /\ IsForest(parent)
    /\ DOMAIN rank = DOMAIN parent
    /\ \A i \in DOMAIN parent : FindRootKeepsRoots(parent, i)

\* a step of the pair loop on (ci, cj) that calls _union
C30_UnionStep ==
    LET ra == RootOf(parent, ci)
        rb == RootOf(parent, cj)
        fa == FindRootRun(parent, ci)
    IN  /\ FindRootKeepsRoots(parent, ci)
        /\ FindRootKeepsRoots(fa.parent, cj)
        /\ SameRoots(fa.parent, parent)
        /\ \A k, l \in DOMAIN parent :
              (RootOf(parent', k) = RootOf(parent', l))
                  <=> \/ RootOf(parent, k) = RootOf(parent, l)
                      \/ {RootOf(parent, k), RootOf(parent, l)} = {ra, rb}
        /\ \A k \in DOMAIN parent :
              RootOf(parent, k) \notin {ra, rb} => RootOf(parent', k) = RootOf(parent, k)
        /\ ra = rb => SameRoots(parent', parent) /\ rank' = rank
        /\ ra # rb =>
              LET top == RootOf(parent', ci)
                  low == IF top = ra THEN rb ELSE ra
              IN  /\ top \in {ra, rb}
                  /\ parent'[low] = top
                  /\ rank[low] <= rank[top]
                  /\ rank[low] < rank[top] => rank' = rank
                  /\ rank[low] = rank[top] => rank' = [rank EXCEPT ![top] = rank[top] + 1]

C30_Step ==
    /\ (pc = "pairs" /\ NgramsSimilar(ngrams, threshold, ci, cj)) => C30_UnionStep
    /\ (pc = "pairs" /\ ~NgramsSimilar(ngrams, threshold, ci, cj)) =>
            parent' = parent /\ rank' = rank
    /\ pc = "sweep" => SameRoots(parent', parent) /\ IsForest(parent')

\* C30: in every state of cluster_ideas the parent array is a forest over 0..n-1
\* (every index reaches a self-parented root in at most n steps, so _find_root
\* terminates); the path compression of _find_root changes the root of no index;
\* _union(a, b) merges exactly the sets of a and b, leaves every other set as it
\* was, and puts the root of lower rank under the root of higher rank
C30_UnionFindForest == [](C30_ForestState) /\ [][C30_Step]_vars

\* C30 witness: 0~2 and then 1~2 with 0 and 1 not similar: the second union finds
\* the root 1 of rank 0 and the root 0 of rank 1, and puts 1 under 0
C30_Witness ==
    /\ pc = "sweep"
    /\ Len(items) = 3
    /\ ~NgramsSimilar(ngrams, threshold, 0, 1)
    /\ parent[0] = 0 /\ parent[1] = 0 /\ parent[2] = 0
    /\ rank[0] = 1 /\ rank[1] = 0

=============================================================================
